---------------------------- MODULE Spec2Model ----------------------------
(***************************************************************************)
(* Model of the authenticated API-access layer of the gh command line      *)
(* tool: the transport decorator chain (AddHeader, AddHeaderFunc,          *)
(* CheckScopes, ReplaceTripper), the API client (REST, GraphQL,            *)
(* HasScopes), the response classification (handleResponse,                *)
(* handleHTTPError) and the reauthentication helpers of the command layer  *)
(* (apiClientForContext, ensureScopes).                                    *)
(***************************************************************************)
EXTENDS Integers, Sequences, FiniteSets, TLC

VARIABLES
    issuedScopesWarning,  \* package variable of api: the scope-warning flag
    cfgToken,             \* the token held by the context's configuration
    clients,              \* the api.Client values built so far
    hist,                 \* history: counts of what the calls so far have met
    last,                 \* history: the last completed call
    io,                   \* inputs and results of a response classification
    inflight              \* round trips in progress (concurrent specification)

vars == <<issuedScopesWarning, cfgToken, clients, hist, last, io, inflight>>

(***************************************************************************)
(* Bounds of the model.                                                    *)
(***************************************************************************)
MaxCalls == 2
MaxClients == 2
MaxErrors == 2
MaxScopes == 2
MaxInflight == 2
MaxOpts == 3

(***************************************************************************)
(* Strings.  Go strings are TLA+ strings; the helpers follow package       *)
(* strings and net/textproto.                                              *)
(***************************************************************************)
UpperChars == "ABCDEFGHIJKLMNOPQRSTUVWXYZ"
LowerChars == "abcdefghijklmnopqrstuvwxyz"

CharAt(s, i) == SubSeq(s, i, i)

IndexIn(c, alphabet) ==
    LET hits == {i \in 1..Len(alphabet) : CharAt(alphabet, i) = c}
    IN  IF hits = {} THEN 0 ELSE CHOOSE i \in hits : TRUE

\* the letter maps, as functions of the letter
LowerMap ==
    [c \in {CharAt(UpperChars, i) : i \in 1..Len(UpperChars)} |->
        CharAt(LowerChars, IndexIn(c, UpperChars))]

UpperMap ==
    [c \in {CharAt(LowerChars, i) : i \in 1..Len(LowerChars)} |->
        CharAt(UpperChars, IndexIn(c, LowerChars))]

LowerChar(c) == IF c \in DOMAIN LowerMap THEN LowerMap[c] ELSE c

UpperChar(c) == IF c \in DOMAIN UpperMap THEN UpperMap[c] ELSE c

RECURSIVE ToLower(_)
ToLower(s) ==
    IF s = "" THEN "" ELSE LowerChar(CharAt(s, 1)) \o ToLower(SubSeq(s, 2, Len(s)))

\* strings.EqualFold, restricted to ASCII (where folding keeps the length)
EqualFold(a, b) == Len(a) = Len(b) /\ ToLower(a) = ToLower(b)

HasPrefix(s, p) == Len(s) >= Len(p) /\ SubSeq(s, 1, Len(p)) = p

HasSuffix(s, suf) ==
    Len(s) >= Len(suf) /\ SubSeq(s, Len(s) - Len(suf) + 1, Len(s)) = suf

TrimPrefix(s, p) == IF HasPrefix(s, p) THEN SubSeq(s, Len(p) + 1, Len(s)) ELSE s

IsSpace(c) == c \in {" ", "\t", "\n", "\r"}

RECURSIVE TrimLeft(_)
TrimLeft(s) ==
    IF s # "" /\ IsSpace(CharAt(s, 1)) THEN TrimLeft(SubSeq(s, 2, Len(s))) ELSE s

RECURSIVE TrimRight(_)
TrimRight(s) ==
    IF s # "" /\ IsSpace(CharAt(s, Len(s)))
    THEN TrimRight(SubSeq(s, 1, Len(s) - 1)) ELSE s

TrimSpace(s) == TrimRight(TrimLeft(s))

\* strings.Split(s, sep) for a one-character separator: always at least one
\* element, the empty string for an empty input
RECURSIVE SplitFrom(_, _, _)
SplitFrom(s, sep, i) ==
    IF i > Len(s) THEN <<s>>
    ELSE IF CharAt(s, i) = sep
         THEN <<SubSeq(s, 1, i - 1)>> \o SplitFrom(SubSeq(s, i + 1, Len(s)), sep, 1)
         ELSE SplitFrom(s, sep, i + 1)

Split(s, sep) == SplitFrom(s, sep, 1)

RECURSIVE Join(_, _)
Join(elems, sep) ==
    IF Len(elems) = 0 THEN ""
    ELSE IF Len(elems) = 1 THEN elems[1]
    ELSE elems[1] \o sep \o Join(Tail(elems), sep)

\* textproto.CanonicalMIMEHeaderKey: first letter and every letter after a
\* hyphen in upper case, the others in lower case
RECURSIVE CanonicalFrom(_, _)
CanonicalFrom(s, upper) ==
    IF s = "" THEN ""
    ELSE LET c == CharAt(s, 1)
         IN  (IF upper THEN UpperChar(c) ELSE LowerChar(c))
                 \o CanonicalFrom(SubSeq(s, 2, Len(s)), c = "-")

\* the header names of the program, canonicalised once
HeaderNames ==
    {"Authorization", "authorization", "User-Agent", "Accept", "Content-Type",
     "X-Oauth-Client-Id", "X-Oauth-Scopes"}

CanonicalNames == [name \in HeaderNames |-> CanonicalFrom(name, TRUE)]

CanonicalHeaderKey(name) ==
    IF name \in HeaderNames THEN CanonicalNames[name] ELSE CanonicalFrom(name, TRUE)

\* url.URL.Hostname: the host without its port
Hostname(host) == Split(host, ":")[1]

(***************************************************************************)
(* http.Header as the sequence of its <<key, value>> pairs, in the order   *)
(* they were added.                                                        *)
(***************************************************************************)
HeaderAdd(h, name, value) == Append(h, <<CanonicalHeaderKey(name), value>>)

HeaderValues(h, name) ==
    LET key == CanonicalHeaderKey(name)
        idx == {i \in 1..Len(h) : h[i][1] = key}
    IN  [j \in 1..Cardinality(idx) |->
            h[CHOOSE i \in idx : Cardinality({k \in idx : k < i}) = j - 1][2]]

HeaderHas(h, key) == \E i \in 1..Len(h) : h[i][1] = key

HeaderGet(h, name) ==
    LET vs == HeaderValues(h, name) IN IF Len(vs) = 0 THEN "" ELSE vs[1]

HeaderSet(h, name, value) ==
    LET key  == CanonicalHeaderKey(name)
        keep == SelectSeq(h, LAMBDA kv : kv[1] # key)
    IN  Append(keep, <<key, value>>)


(***************************************************************************)
(* Requests, responses and the inputs the handlers draw from.              *)
(***************************************************************************)
Absent == "<absent>"

httpOAuthAppID == "X-Oauth-Client-Id"
httpOAuthScopes == "X-Oauth-Scopes"

oauthClientID == "178c6fc778ccc68e1d6a"

Tokens == {"T1", "T2"}

\* the tokens an authorization flow hands out
NewTokens == {"T2"}

\* values of the GITHUB_HOST environment variable ("" is unset)
GheHosts == {"", "agithub.com:8"}

\* values of the GITHUB_TOKEN environment variable ("" is unset)
EnvTokens == {"", "T1"}

AppIDs == {oauthClientID, "other-app"}

ScopesHeaders == {"repo", "gist, read:org", "admin:org"}

MkHeader(appID, scopes) ==
    (IF appID = Absent THEN <<>> ELSE <<<<httpOAuthAppID, appID>>>>)
        \o (IF scopes = Absent THEN <<>> ELSE <<<<httpOAuthScopes, scopes>>>>)

\* the response headers drawn by the calls: every granted-scopes header with
\* the app identifier of the CLI, one with another app's and one with none
ResponseHeaders ==
    {MkHeader(oauthClientID, s) : s \in ScopesHeaders}
        \cup {MkHeader("other-app", "repo"), MkHeader(Absent, "repo")}

NewRequest(method, host, path) ==
    [method |-> method, host |-> host, path |-> path, header |-> <<>>]

(***************************************************************************)
(* Client options.  An option list is the argument list of NewClient; the  *)
(* value function of AddHeaderFunc and the callback of CheckScopes are     *)
(* the closures getAuthValue and checkScopesFunc over the client's token.  *)
(***************************************************************************)
Opt(kind, name, value) == [kind |-> kind, name |-> name, value |-> value]

getAuthValue(token) == "token " \o token

\* AddHeader's round trip up to the call of the wrapped sender
AddHeaderLeaky(name, value, req) ==
    IF ~EqualFold(name, "Authorization") \/ HasSuffix(Hostname(req.host), "github.com")
    THEN [req EXCEPT !.header = HeaderAdd(@, name, value)]
    ELSE req

AddHeader(name, value, req) ==
    IF ~EqualFold(name, "Authorization") \/ HasSuffix(Hostname(req.host), ".github.com")
    THEN [req EXCEPT !.header = HeaderAdd(@, name, value)]
    ELSE req

\* AddHeaderFunc's round trip up to the call of the wrapped sender
AddHeaderFunc(name, token, req) ==
    IF ~EqualFold(name, "Authorization") \/ HasSuffix(Hostname(req.host), ".github.com")
    THEN [req EXCEPT !.header = HeaderAdd(@, name, getAuthValue(token))]
    ELSE req

\* The request side of the composed transport: NewHTTPClient wraps the
\* options first to last, so the last option sees the request first.  A
\* ReplaceTripper option discards everything wrapped before it.
RECURSIVE RequestPath(_, _, _, _)
RequestPath(opts, i, req, token) ==
    IF i = 0 THEN [req |-> req, sender |-> "DefaultTransport", at |-> 0]
    ELSE LET o == opts[i] IN
         CASE o.kind = "ReplaceTripper" ->
                [req |-> req, sender |-> "ReplaceTripper", at |-> i]
           [] o.kind = "AddHeader" ->
                RequestPath(opts, i - 1, AddHeader(o.name, o.value, req), token)
           [] o.kind = "AddHeaderFunc" ->
                RequestPath(opts, i - 1, AddHeaderFunc(o.name, token, req), token)
           [] OTHER -> RequestPath(opts, i - 1, req, token)

IsGitHubApp(appID) == appID = oauthClientID

\* what the callback reads from its environment
\* (the outcome of the authorization flow is drawn only where it is run)
CallbackInputs ==
    {in \in [githubToken : EnvTokens, isTerminal : BOOLEAN, cfgErr : BOOLEAN,
             flow : NewTokens \cup {"error"}] :
        /\ in.cfgErr => in.flow = "error"
        /\ ~in.isTerminal => (~in.cfgErr /\ in.flow = "error")}

\* config.AuthFlowWithConfig: the token obtained, stored in the configuration
AuthFlowWithConfig(cfg, in) ==
    IF in.flow = "error" THEN [err |-> "authflow", token |-> "", cfg |-> cfg]
    ELSE [err |-> "", token |-> in.flow, cfg |-> in.flow]

checkScopesFuncKeepsToken(appID, token, cfg, in) ==
    IF IsGitHubApp(appID) /\ ~(in.githubToken = token) /\ in.isTerminal
    THEN IF in.cfgErr
         THEN [err |-> "config", token |-> token, cfg |-> cfg, how |-> "reauth"]
         ELSE LET flow == AuthFlowWithConfig(cfg, in) IN
              IF flow.err # ""
              THEN [err |-> flow.err, token |-> token, cfg |-> flow.cfg, how |-> "reauth"]
              ELSE [err |-> "", token |-> token, cfg |-> flow.cfg, how |-> "reauth"]
    ELSE [err |-> "", token |-> token, cfg |-> cfg, how |-> "warning"]

\* the callback of apiClientForContext
checkScopesFunc(appID, token, cfg, in) ==
    IF IsGitHubApp(appID) /\ ~(in.githubToken = token) /\ in.isTerminal
    THEN IF in.cfgErr
         THEN [err |-> "config", token |-> token, cfg |-> cfg, how |-> "reauth"]
         ELSE LET flow == AuthFlowWithConfig(cfg, in) IN
              IF flow.err # ""
              THEN [err |-> flow.err, token |-> token, cfg |-> flow.cfg, how |-> "reauth"]
              ELSE [err |-> "", token |-> flow.token, cfg |-> flow.cfg, how |-> "reauth"]
    ELSE [err |-> "", token |-> token, cfg |-> cfg, how |-> "warning"]

wantedCandidates(wantedScope) ==
    IF HasPrefix(wantedScope, "read:")
    THEN <<wantedScope, "admin:" \o TrimPrefix(wantedScope, "read:")>>
    ELSE <<wantedScope>>

hasWantedUntrimmed(wantedScope, res) ==
    LET hasScopes == Split(HeaderGet(res.Header, httpOAuthScopes), ",")
        cands     == wantedCandidates(wantedScope)
    IN  \E i \in 1..Len(hasScopes) : \E j \in 1..Len(cands) :
            cands[j] = hasScopes[i]

hasWanted(wantedScope, res) ==
    LET hasScopes == Split(HeaderGet(res.Header, httpOAuthScopes), ",")
        cands     == wantedCandidates(wantedScope)
    IN  \E i \in 1..Len(hasScopes) : \E j \in 1..Len(cands) :
            cands[j] = TrimSpace(hasScopes[i])

\* The response side of one CheckScopes decorator.  st carries the wrapped
\* sender's result (res, err), the package flag, the closure's token and the
\* configuration, and the history of the call (qual, sat, fired, cbErr).
CheckScopesNoLatch(wantedScope, st, in) ==
    LET ok      == st.err = "" /\ st.res.StatusCode <= 299
        qualify == ok /\ HeaderHas(st.res.Header, httpOAuthAppID)
        h       == [st EXCEPT !.qual = @ \/ qualify,
                              !.sat = @ \/ (qualify /\ hasWanted(wantedScope, st.res))]
    IN  IF st.err # "" \/ st.res.StatusCode > 299 THEN h
        ELSE IF ~HeaderHas(st.res.Header, httpOAuthAppID) THEN h
        ELSE IF ~hasWanted(wantedScope, st.res)
             THEN IF st.flag THEN h
                  ELSE LET cb == checkScopesFunc(HeaderGet(st.res.Header, httpOAuthAppID),
                                                 st.token, st.cfg, in)
                       IN  IF cb.err # ""
                           THEN [h EXCEPT !.err = cb.err, !.fired = @ + 1, !.cbErr = TRUE,
                                          !.token = cb.token, !.cfg = cb.cfg, !.how = cb.how]
                           ELSE [h EXCEPT !.flag = TRUE, !.fired = @ + 1,
                                          !.token = cb.token, !.cfg = cb.cfg, !.how = cb.how]
             ELSE [h EXCEPT !.flag = FALSE]

CheckScopesFlagFirst(wantedScope, st, in) ==
    LET ok      == st.err = "" /\ st.res.StatusCode <= 299
        qualify == ok /\ HeaderHas(st.res.Header, httpOAuthAppID)
        h       == [st EXCEPT !.qual = @ \/ qualify,
                              !.sat = @ \/ (qualify /\ hasWanted(wantedScope, st.res))]
    IN  IF st.err # "" \/ st.res.StatusCode > 299 \/ st.flag THEN h
        ELSE IF ~HeaderHas(st.res.Header, httpOAuthAppID) THEN h
        ELSE IF ~hasWanted(wantedScope, st.res)
             THEN LET cb == checkScopesFunc(HeaderGet(st.res.Header, httpOAuthAppID),
                                            st.token, st.cfg, in)
                  IN  IF cb.err # ""
                      THEN [h EXCEPT !.flag = TRUE, !.err = cb.err, !.fired = @ + 1,
                                     !.cbErr = TRUE,
                                     !.token = cb.token, !.cfg = cb.cfg, !.how = cb.how]
                      ELSE [h EXCEPT !.flag = TRUE, !.fired = @ + 1,
                                     !.token = cb.token, !.cfg = cb.cfg, !.how = cb.how]
             ELSE h

CheckScopesNoHeaderCheck(wantedScope, st, in) ==
    LET ok      == st.err = "" /\ st.res.StatusCode <= 299
        qualify == ok /\ HeaderHas(st.res.Header, httpOAuthAppID)
        h       == [st EXCEPT !.qual = @ \/ qualify,
                              !.sat = @ \/ (qualify /\ hasWanted(wantedScope, st.res))]
    IN  IF st.err # "" \/ st.res.StatusCode > 299 \/ st.flag THEN h
        ELSE IF ~hasWanted(wantedScope, st.res)
             THEN LET cb == checkScopesFunc(HeaderGet(st.res.Header, httpOAuthAppID),
                                            st.token, st.cfg, in)
                  IN  IF cb.err # ""
                      THEN [h EXCEPT !.err = cb.err, !.fired = @ + 1, !.cbErr = TRUE,
                                     !.token = cb.token, !.cfg = cb.cfg, !.how = cb.how]
                      ELSE [h EXCEPT !.flag = TRUE, !.fired = @ + 1,
                                     !.token = cb.token, !.cfg = cb.cfg, !.how = cb.how]
             ELSE h

CheckScopesSwallowsCallbackError(wantedScope, st, in) ==
    LET ok      == st.err = "" /\ st.res.StatusCode <= 299
        qualify == ok /\ HeaderHas(st.res.Header, httpOAuthAppID)
        h       == [st EXCEPT !.qual = @ \/ qualify,
                              !.sat = @ \/ (qualify /\ hasWanted(wantedScope, st.res))]
    IN  IF st.err # "" \/ st.res.StatusCode > 299 \/ st.flag THEN h
        ELSE IF ~HeaderHas(st.res.Header, httpOAuthAppID) THEN h
        ELSE IF ~hasWanted(wantedScope, st.res)
             THEN LET cb == checkScopesFunc(HeaderGet(st.res.Header, httpOAuthAppID),
                                            st.token, st.cfg, in)
                  IN  IF cb.err # ""
                      THEN [h EXCEPT !.fired = @ + 1, !.cbErr = TRUE,
                                     !.token = cb.token, !.cfg = cb.cfg, !.how = cb.how]
                      ELSE [h EXCEPT !.flag = TRUE, !.fired = @ + 1,
                                     !.token = cb.token, !.cfg = cb.cfg, !.how = cb.how]
             ELSE h

CheckScopesRechecks(wantedScope, st, in) ==
    LET ok      == st.err = "" /\ st.res.StatusCode <= 299
        qualify == ok /\ HeaderHas(st.res.Header, httpOAuthAppID)
        h       == [st EXCEPT !.qual = @ \/ qualify,
                              !.sat = @ \/ (qualify /\ hasWanted(wantedScope, st.res))]
    IN  IF st.err # "" \/ st.res.StatusCode > 299 THEN h
        ELSE IF ~HeaderHas(st.res.Header, httpOAuthAppID) THEN h
        ELSE IF ~hasWanted(wantedScope, st.res)
             THEN LET cb == checkScopesFunc(HeaderGet(st.res.Header, httpOAuthAppID),
                                            st.token, st.cfg, in)
                  IN  IF cb.err # ""
                      THEN [h EXCEPT !.err = cb.err, !.fired = @ + 1, !.cbErr = TRUE,
                                     !.token = cb.token, !.cfg = cb.cfg, !.how = cb.how]
                      ELSE [h EXCEPT !.flag = TRUE, !.fired = @ + 1,
                                     !.token = cb.token, !.cfg = cb.cfg, !.how = cb.how]
             ELSE h

CheckScopesLatchPerScope(wantedScope, st, in) ==
    LET ok      == st.err = "" /\ st.res.StatusCode <= 299
        qualify == ok /\ HeaderHas(st.res.Header, httpOAuthAppID)
        h       == [st EXCEPT !.qual = @ \/ qualify,
                              !.sat = @ \/ (qualify /\ hasWanted(wantedScope, st.res))]
    IN  IF st.err # "" \/ st.res.StatusCode > 299 THEN h
        ELSE IF st.flag /\ wantedScope = "read:org" THEN h
        ELSE IF ~HeaderHas(st.res.Header, httpOAuthAppID) THEN h
        ELSE IF ~hasWanted(wantedScope, st.res)
             THEN LET cb == checkScopesFunc(HeaderGet(st.res.Header, httpOAuthAppID),
                                            st.token, st.cfg, in)
                  IN  IF cb.err # ""
                      THEN [h EXCEPT !.err = cb.err, !.fired = @ + 1, !.cbErr = TRUE,
                                     !.token = cb.token, !.cfg = cb.cfg, !.how = cb.how]
                      ELSE [h EXCEPT !.flag = TRUE, !.fired = @ + 1,
                                     !.token = cb.token, !.cfg = cb.cfg, !.how = cb.how]
             ELSE h

CheckScopesIgnoresStatus(wantedScope, st, in) ==
    LET ok      == st.err = "" /\ st.res.StatusCode <= 299
        qualify == ok /\ HeaderHas(st.res.Header, httpOAuthAppID)
        h       == [st EXCEPT !.qual = @ \/ qualify,
                              !.sat = @ \/ (qualify /\ hasWanted(wantedScope, st.res))]
    IN  IF st.err # "" \/ st.flag THEN h
        ELSE IF ~HeaderHas(st.res.Header, httpOAuthAppID) THEN h
        ELSE IF ~hasWanted(wantedScope, st.res)
             THEN LET cb == checkScopesFunc(HeaderGet(st.res.Header, httpOAuthAppID),
                                            st.token, st.cfg, in)
                  IN  IF cb.err # ""
                      THEN [h EXCEPT !.err = cb.err, !.fired = @ + 1, !.cbErr = TRUE,
                                     !.token = cb.token, !.cfg = cb.cfg, !.how = cb.how]
                      ELSE [h EXCEPT !.flag = TRUE, !.fired = @ + 1,
                                     !.token = cb.token, !.cfg = cb.cfg, !.how = cb.how]
             ELSE h

CheckScopes(wantedScope, st, in) ==
    LET ok      == st.err = "" /\ st.res.StatusCode <= 299
        qualify == ok /\ HeaderHas(st.res.Header, httpOAuthAppID)
        h       == [st EXCEPT !.qual = @ \/ qualify,
                              !.sat = @ \/ (qualify /\ hasWanted(wantedScope, st.res))]
    IN  IF st.err # "" \/ st.res.StatusCode > 299 \/ st.flag THEN h
        ELSE IF ~HeaderHas(st.res.Header, httpOAuthAppID) THEN h
        ELSE IF ~hasWanted(wantedScope, st.res)
             THEN LET cb == checkScopesFunc(HeaderGet(st.res.Header, httpOAuthAppID),
                                            st.token, st.cfg, in)
                  IN  IF cb.err # ""
                      THEN [h EXCEPT !.err = cb.err, !.fired = @ + 1, !.cbErr = TRUE,
                                     !.token = cb.token, !.cfg = cb.cfg, !.how = cb.how]
                      ELSE [h EXCEPT !.flag = TRUE, !.fired = @ + 1,
                                     !.token = cb.token, !.cfg = cb.cfg, !.how = cb.how]
             ELSE h

\* The response side of the composed transport, from the decorator that
\* wraps the sender outwards.
RECURSIVE ResponsePath(_, _, _, _)
ResponsePath(opts, i, st, in) ==
    IF i > Len(opts) THEN st
    ELSE IF opts[i].kind = "CheckScopes"
         THEN ResponsePath(opts, i + 1, CheckScopes(opts[i].name, st, in), in)
         ELSE ResponsePath(opts, i + 1, st, in)

(***************************************************************************)
(* Response bodies and errors.  A body is what ioutil.ReadAll and           *)
(* json.Unmarshal make of it: whether it can be read, whether it is         *)
(* well-formed JSON, and for a JSON object the members the decoders look   *)
(* at: "message" (a string, or a value of another type), "id", "data" (an  *)
(* object with a "login" member) and "errors" (a list of GraphQL errors).  *)
(***************************************************************************)
NonString == "<non-string>"

ReadErrorText == "unexpected EOF"

ErrorMessages == {"Could not resolve to an Issue", "Field 'x' doesn't exist"}

GraphQLError(message) == [Type |-> "NOT_FOUND", Path |-> <<"repository">>, Message |-> message]

RECURSIVE SeqsUpTo(_, _)
SeqsUpTo(S, n) ==
    IF n = 0 THEN {<<>>}
    ELSE LET shorter == SeqsUpTo(S, n - 1)
         IN  shorter \cup {Append(q, x) : q \in {r \in shorter : Len(r) = n - 1}, x \in S}

ErrorLists == SeqsUpTo({GraphQLError(m) : m \in ErrorMessages}, MaxErrors)

UnreadableBody ==
    [readable |-> FALSE, wellFormed |-> FALSE, message |-> Absent, id |-> Absent,
     data |-> Absent, errors |-> <<>>]

MalformedBody == [UnreadableBody EXCEPT !.readable = TRUE]

ObjectBodies ==
    [readable : {TRUE}, wellFormed : {TRUE},
     message : {Absent, "Not Found", NonString},
     id : {Absent, "X"}, data : {Absent, "octocat"}, errors : ErrorLists]

Bodies == {UnreadableBody, MalformedBody} \cup ObjectBodies

Statuses == {199, 200, 204, 299, 300, 404}

\* the caller's output target: a struct with the fields ID and Login
BlankTarget == [id |-> "", login |-> ""]

Targets == {BlankTarget, [id |-> "old", login |-> "old"]}

\* the members of a JSON object that name a field of the target
Members(fields) == {k \in DOMAIN fields : fields[k] # Absent}

\* json.Unmarshal of a JSON object into a struct: the members present in the
\* object overwrite their fields, the other fields keep their values
Unmarshal(target, fields) ==
    [k \in DOMAIN target |-> IF k \in Members(fields) THEN fields[k] ELSE target[k]]

TopLevel(body) == [id |-> body.id, login |-> Absent]

DataObject(body) == [id |-> Absent, login |-> body.data]

NoError == [kind |-> "nil", StatusCode |-> 0, Message |-> "", Errors |-> <<>>]

GenericError(kind) == [NoError EXCEPT !.kind = kind]

HTTPError(status, message) ==
    [kind |-> "HTTPError", StatusCode |-> status, Message |-> message, Errors |-> <<>>]

GraphQLErrorResponse(errors) ==
    [kind |-> "GraphQLErrorResponse", StatusCode |-> 0, Message |-> "", Errors |-> errors]

\* GraphQLErrorResponse.Error
GraphQLErrorResponseErrorComma(gr) ==
    "GraphQL error: " \o Join([i \in 1..Len(gr.Errors) |-> gr.Errors[i].Message], ", ")

GraphQLErrorResponseError(gr) ==
    "GraphQL error: " \o Join([i \in 1..Len(gr.Errors) |-> gr.Errors[i].Message], "\n")

successUpTo300(StatusCode) == StatusCode >= 200 /\ StatusCode <= 300

success(StatusCode) == StatusCode >= 200 /\ StatusCode < 300

handleHTTPErrorDecodeText(resp) ==
    IF ~resp.Body.readable THEN HTTPError(resp.StatusCode, ReadErrorText)
    ELSE IF resp.Body.wellFormed /\ resp.Body.message # NonString
         THEN HTTPError(resp.StatusCode,
                        IF resp.Body.message = Absent THEN "" ELSE resp.Body.message)
         ELSE HTTPError(resp.StatusCode, "invalid character")

handleHTTPError(resp) ==
    IF ~resp.Body.readable THEN HTTPError(resp.StatusCode, ReadErrorText)
    ELSE IF resp.Body.wellFormed /\ resp.Body.message # NonString
         THEN HTTPError(resp.StatusCode,
                        IF resp.Body.message = Absent THEN "" ELSE resp.Body.message)
         ELSE HTTPError(resp.StatusCode, "")

\* Client.REST from the response on: the error returned and the target
RESTResponseNo204(resp, data) ==
    IF ~success(resp.StatusCode) THEN [err |-> handleHTTPError(resp), data |-> data]
    ELSE IF ~resp.Body.readable THEN [err |-> GenericError("read"), data |-> data]
    ELSE IF ~resp.Body.wellFormed THEN [err |-> GenericError("json"), data |-> data]
    ELSE [err |-> NoError, data |-> Unmarshal(data, TopLevel(resp.Body))]

RESTResponseSwallowsDecode(resp, data) ==
    IF ~success(resp.StatusCode) THEN [err |-> handleHTTPError(resp), data |-> data]
    ELSE IF resp.StatusCode = 204 THEN [err |-> NoError, data |-> data]
    ELSE IF ~resp.Body.readable THEN [err |-> GenericError("read"), data |-> data]
    ELSE IF ~resp.Body.wellFormed THEN [err |-> NoError, data |-> data]
    ELSE [err |-> NoError, data |-> Unmarshal(data, TopLevel(resp.Body))]

RESTResponse(resp, data) ==
    IF ~success(resp.StatusCode) THEN [err |-> handleHTTPError(resp), data |-> data]
    ELSE IF resp.StatusCode = 204 THEN [err |-> NoError, data |-> data]
    ELSE IF ~resp.Body.readable THEN [err |-> GenericError("read"), data |-> data]
    ELSE IF ~resp.Body.wellFormed THEN [err |-> GenericError("json"), data |-> data]
    ELSE [err |-> NoError, data |-> Unmarshal(data, TopLevel(resp.Body))]

handleResponseFreshTarget(resp, data) ==
    IF ~success(resp.StatusCode) THEN [err |-> handleHTTPError(resp), data |-> data]
    ELSE IF ~resp.Body.readable THEN [err |-> GenericError("read"), data |-> data]
    ELSE IF ~resp.Body.wellFormed THEN [err |-> GenericError("json"), data |-> data]
    ELSE IF Len(resp.Body.errors) > 0
         THEN [err |-> GraphQLErrorResponse(resp.Body.errors), data |-> data]
         ELSE [err |-> NoError, data |-> data]

handleResponseSwallowsDecode(resp, data) ==
    IF ~success(resp.StatusCode) THEN [err |-> handleHTTPError(resp), data |-> data]
    ELSE IF ~resp.Body.readable THEN [err |-> GenericError("read"), data |-> data]
    ELSE IF ~resp.Body.wellFormed THEN [err |-> NoError, data |-> data]
    ELSE LET decoded == Unmarshal(data, DataObject(resp.Body)) IN
         IF Len(resp.Body.errors) > 0
         THEN [err |-> GraphQLErrorResponse(resp.Body.errors), data |-> decoded]
         ELSE [err |-> NoError, data |-> decoded]

\* handleResponse: the envelope is decoded with the caller's target as its
\* Data, so a "data" member is unmarshaled into the target before the error
\* list is looked at
handleResponse(resp, data) ==
    IF ~success(resp.StatusCode) THEN [err |-> handleHTTPError(resp), data |-> data]
    ELSE IF ~resp.Body.readable THEN [err |-> GenericError("read"), data |-> data]
    ELSE IF ~resp.Body.wellFormed THEN [err |-> GenericError("json"), data |-> data]
    ELSE LET decoded == Unmarshal(data, DataObject(resp.Body)) IN
         IF Len(resp.Body.errors) > 0
         THEN [err |-> GraphQLErrorResponse(resp.Body.errors), data |-> decoded]
         ELSE [err |-> NoError, data |-> decoded]

\* the number of pairs (s, w) of a granted token and a wanted scope that match
found(hasScopes, wantedScopes) ==
    Cardinality({p \in (1..Len(hasScopes)) \X (1..Len(wantedScopes)) :
                    wantedScopes[p[2]] = TrimSpace(hasScopes[p[1]])})

\* Client.HasScopes from the response on
HasScopesResponse(res, wantedScopes) ==
    IF res.StatusCode # 200
    THEN [ok |-> FALSE, appID |-> "", err |-> handleHTTPError(res)]
    ELSE LET appID     == HeaderGet(res.Header, "X-Oauth-Client-Id")
             hasScopes == Split(HeaderGet(res.Header, "X-Oauth-Scopes"), ",")
         IN  [ok |-> found(hasScopes, wantedScopes) = Len(wantedScopes),
              appID |-> appID, err |-> NoError]

NilResponse == [StatusCode |-> 0, Header |-> <<>>]

\* what the sender returns: a response, or an error and no response
TransportError == [res |-> NilResponse, err |-> "transport"]

CallStatuses == {200, 299, 300}

Outcomes ==
    {TransportError}
        \cup {[res |-> [StatusCode |-> s, Header |-> h], err |-> ""] :
                s \in CallStatuses, h \in ResponseHeaders}

\* http.Client.Do from the sender's result on: the result after every
\* decorator wrapped around the sender has seen it
Do(client, at, outcome, flag, cfg, in) ==
    ResponsePath(client.opts, at + 1,
                 [res |-> outcome.res, err |-> outcome.err, flag |-> flag,
                  token |-> client.token, cfg |-> cfg, qual |-> FALSE, sat |-> FALSE,
                  fired |-> 0, cbErr |-> FALSE, how |-> ""],
                 in)

(***************************************************************************)
(* The process: clients are built, and calls are made through them one at  *)
(* a time.                                                                 *)
(***************************************************************************)
defaultHost == "api.github.com"

WantedLists == {<<"read:org">>}

\* the values of DEBUG, as the option it adds or not (unset in this model)
Verbose == {FALSE}

\* the options apiClientForContext passes to NewClient
ContextOptions(verbose) ==
    (IF verbose THEN <<Opt("VerboseLog", "", "")>> ELSE <<>>)
        \o <<Opt("CheckScopes", "read:org", ""),
             Opt("AddHeaderFunc", "Authorization", ""),
             Opt("AddHeader", "User-Agent", "GitHub CLI"),
             Opt("AddHeader", "Accept", "application/vnd.github.antiope-preview+json")>>

\* option lists of the other callers of NewClient: a list with a replaced
\* sender, a second wanted scope and a lower-case header name
OptionLists ==
    { <<Opt("AddHeader", "Authorization", "token T1"),
        Opt("ReplaceTripper", "", ""),
        Opt("CheckScopes", "repo", ""),
        Opt("AddHeader", "authorization", "token T1")>> }

NoCall ==
    [op |-> "none", client |-> 0, host |-> "", sender |-> "", auth |-> <<>>,
     err |-> "nil"]

NoHistory ==
    [qual |-> 0, untilOk |-> 0, fired |-> 0, ok |-> 0, sat |-> FALSE,
     reauthClient |-> 0, reauthToken |-> "", setBy |-> 0]

DefaultIn == [githubToken |-> "", isTerminal |-> FALSE, cfgErr |-> FALSE, flow |-> "error"]

\* the callback inputs that matter for a round trip: none when no callback runs
InputsFor(client, at, outcome, flag, cfg) ==
    IF Do(client, at, outcome, flag, cfg, DefaultIn).fired = 0
    THEN {DefaultIn} ELSE CallbackInputs

\* the same for ensureScopes, which reads the environment itself
EnvironmentFor(client, at, outcome, flag, cfg) ==
    IF Do(client, at, outcome, flag, cfg, DefaultIn).fired = 0
    THEN {in \in CallbackInputs : ~in.cfgErr /\ in.flow = "error"}
    ELSE CallbackInputs

\* the bodies drawn by the calls of the process
CallBodies ==
    {MalformedBody}
        \cup {b \in ObjectBodies :
                /\ b.message = "Not Found" /\ b.id = Absent /\ b.data = "octocat"
                /\ \/ b.errors = <<>>
                   \/ b.errors = <<GraphQLError("Could not resolve to an Issue")>>}

BodiesFor(st) == IF st.err # "" THEN {MalformedBody} ELSE CallBodies

WithBody(res, body) ==
    [StatusCode |-> res.StatusCode, Header |-> res.Header, Body |-> body]

Called(op, c, sent, st, errKind) ==
    [op |-> op, client |-> c, host |-> sent.req.host, sender |-> sent.sender,
     auth |-> HeaderValues(sent.req.header, "Authorization"),
     err |-> errKind]

Recorded(h, st) ==
    [h EXCEPT !.qual    = h.qual + (IF st.qual THEN 1 ELSE 0),
              !.untilOk = h.untilOk + (IF st.qual /\ h.ok = 0 THEN 1 ELSE 0),
              !.fired   = h.fired + st.fired,
              !.ok      = h.ok + (IF st.cbErr THEN st.fired - 1 ELSE st.fired),
              !.sat     = h.sat \/ st.sat]

\* the callback of the round trip returned without error, so that the flag
\* was set: the client whose decorator set it (setBy); and when it completed
\* an authorization flow, that client and the token the flow handed out
Reauthenticated(h, c, st, in) ==
    LET g == IF st.fired > 0 /\ ~st.cbErr /\ h.setBy = 0
             THEN [h EXCEPT !.setBy = c] ELSE h
    IN  IF st.fired > 0 /\ ~st.cbErr /\ st.how = "reauth"
        THEN [g EXCEPT !.reauthClient = c, !.reauthToken = in.flow]
        ELSE g

\* the state a round trip of client c leaves behind
Tripped(c, st, in) ==
    /\ issuedScopesWarning' = st.flag
    /\ cfgToken' = st.cfg
    /\ clients' = [clients EXCEPT ![c].token = st.token]
    /\ hist' = Reauthenticated(Recorded(hist, st), c, st, in)

NewClient ==
    /\ Len(clients) < MaxClients
    /\ \E opts \in OptionLists :
          clients' = Append(clients, [opts |-> opts, token |-> cfgToken])
    /\ UNCHANGED <<issuedScopesWarning, cfgToken, hist, last, io, inflight>>

\* the client apiClientForContext returns for the token of the context
Rebuilt(token, verbose) == [opts |-> ContextOptions(verbose), token |-> token]

\* ctx.AuthToken() fails and no client is built, or the client is built
apiClientForContext ==
    /\ Len(clients) < MaxClients
    /\ \E verbose \in Verbose, authErr \in BOOLEAN :
          clients' = IF authErr THEN clients
                     ELSE Append(clients, Rebuilt(cfgToken, verbose))
    /\ UNCHANGED <<issuedScopesWarning, cfgToken, hist, last, io, inflight>>

RESTURLUnversioned(gheHostname, p) ==
    IF gheHostname # ""
    THEN [host |-> gheHostname, path |-> p]
    ELSE [host |-> defaultHost, path |-> p]

RESTURL(gheHostname, p) ==
    IF gheHostname # ""
    THEN [host |-> gheHostname, path |-> "api/v3/" \o p]
    ELSE [host |-> defaultHost, path |-> p]

GraphQLURL(gheHostname) ==
    IF gheHostname # ""
    THEN [host |-> gheHostname, path |-> "api/graphql"]
    ELSE [host |-> defaultHost, path |-> "graphql"]

ContentType(req) ==
    [req EXCEPT !.header = HeaderSet(@, "Content-Type", "application/json; charset=utf-8")]

\* the request of a call as it reaches the sender
Sent(client, method, url) ==
    RequestPath(client.opts, Len(client.opts),
                ContentType(NewRequest(method, url.host, url.path)), client.token)

REST ==
    /\ hist.qual < MaxCalls
    /\ \E c \in 1..Len(clients), gheHostname \in GheHosts :
          \E sent \in {Sent(clients[c], "GET", RESTURL(gheHostname, "user"))} :
          \E outcome \in Outcomes :
          \E in \in InputsFor(clients[c], sent.at, outcome, issuedScopesWarning, cfgToken) :
          \E st \in {Do(clients[c], sent.at, outcome, issuedScopesWarning, cfgToken, in)} :
          \E body \in BodiesFor(st) :
          LET r == IF st.err # "" THEN [err |-> GenericError(st.err)]
                   ELSE RESTResponse(WithBody(st.res, body), BlankTarget)
          IN  /\ Tripped(c, st, in)
              /\ last' = Called("REST", c, sent, st, r.err.kind)
    /\ UNCHANGED <<io, inflight>>

GraphQL ==
    /\ hist.qual < MaxCalls
    /\ \E c \in 1..Len(clients), gheHostname \in GheHosts :
          \E sent \in {Sent(clients[c], "POST", GraphQLURL(gheHostname))} :
          \E outcome \in Outcomes :
          \E in \in InputsFor(clients[c], sent.at, outcome, issuedScopesWarning, cfgToken) :
          \E st \in {Do(clients[c], sent.at, outcome, issuedScopesWarning, cfgToken, in)} :
          \E body \in BodiesFor(st) :
          LET r == IF st.err # "" THEN [err |-> GenericError(st.err)]
                   ELSE handleResponse(WithBody(st.res, body), BlankTarget)
          IN  /\ Tripped(c, st, in)
              /\ last' = Called("GraphQL", c, sent, st, r.err.kind)
    /\ UNCHANGED <<io, inflight>>

\* the URL of the identity request if HasScopes built it as REST does
HasScopesURLHonoursOverride == RESTURL(io.gheHostname, "user")

HasScopesURL == [host |-> "api.github.com", path |-> "user"]

\* Client.HasScopes from the result of http.Client.Do on
HasScopesResult(st, body, wantedScopes) ==
    IF st.err # "" THEN [ok |-> FALSE, appID |-> "", err |-> GenericError(st.err)]
    ELSE HasScopesResponse(WithBody(st.res, body), wantedScopes)

HasScopes ==
    /\ hist.qual < MaxCalls
    /\ \E c \in 1..Len(clients) :
          \E sent \in {Sent(clients[c], "GET", HasScopesURL)} :
          \E outcome \in Outcomes :
          \E in \in InputsFor(clients[c], sent.at, outcome, issuedScopesWarning, cfgToken) :
          \E st \in {Do(clients[c], sent.at, outcome, issuedScopesWarning, cfgToken, in)} :
          \E body \in BodiesFor(st), wantedScopes \in WantedLists :
          LET r == HasScopesResult(st, body, wantedScopes)
          IN  /\ Tripped(c, st, in)
              /\ last' = Called("HasScopes", c, sent, st, r.err.kind)
    /\ UNCHANGED <<io, inflight>>

\* ensureScopes after its call of HasScopes: the error it returns and the
\* client it returns with it (ret: the client it was given, or 0 for nil;
\* with reload, the client rebuilt by apiClientForContext instead), the
\* configuration and what it did (how); authErr is the failure of the
\* rebuild's ctx.AuthToken()
ensureScopesBranchIgnoresResult(c, r, cfg, in, authErr) ==
    IF r.err.kind # "nil"
    THEN [ret |-> c, err |-> r.err.kind, cfg |-> cfg, how |-> "none", reload |-> FALSE]
    ELSE IF IsGitHubApp(r.appID) /\ ~(Len(in.githubToken) > 0) /\ in.isTerminal
         THEN IF in.cfgErr
              THEN [ret |-> 0, err |-> "config", cfg |-> cfg, how |-> "reauth",
                    reload |-> FALSE]
              ELSE LET flow == AuthFlowWithConfig(cfg, in) IN
                   IF flow.err # ""
                   THEN [ret |-> 0, err |-> flow.err, cfg |-> flow.cfg, how |-> "reauth",
                         reload |-> FALSE]
                   ELSE IF authErr
                        THEN [ret |-> c, err |-> "authtoken", cfg |-> flow.cfg,
                              how |-> "reauth", reload |-> FALSE]
                        ELSE [ret |-> c, err |-> "nil", cfg |-> flow.cfg,
                              how |-> "reauth", reload |-> TRUE]
         ELSE [ret |-> c, err |-> "Unable to reauthenticate", cfg |-> cfg,
               how |-> "warning", reload |-> FALSE]

\* ensureScopes if its warning branch were latched by the flag
ensureScopesBranchLatched(c, r, cfg, in, authErr) ==
    IF r.err.kind # "nil"
    THEN [ret |-> c, err |-> r.err.kind, cfg |-> cfg, how |-> "none", reload |-> FALSE]
    ELSE IF r.ok \/ io.flag
    THEN [ret |-> c, err |-> "nil", cfg |-> cfg, how |-> "none", reload |-> FALSE]
    ELSE IF IsGitHubApp(r.appID) /\ ~(Len(in.githubToken) > 0) /\ in.isTerminal
         THEN IF in.cfgErr
              THEN [ret |-> 0, err |-> "config", cfg |-> cfg, how |-> "reauth",
                    reload |-> FALSE]
              ELSE LET flow == AuthFlowWithConfig(cfg, in) IN
                   IF flow.err # ""
                   THEN [ret |-> 0, err |-> flow.err, cfg |-> flow.cfg, how |-> "reauth",
                         reload |-> FALSE]
                   ELSE IF authErr
                        THEN [ret |-> c, err |-> "authtoken", cfg |-> flow.cfg,
                              how |-> "reauth", reload |-> FALSE]
                        ELSE [ret |-> c, err |-> "nil", cfg |-> flow.cfg,
                              how |-> "reauth", reload |-> TRUE]
         ELSE [ret |-> c, err |-> "Unable to reauthenticate", cfg |-> cfg,
               how |-> "warning", reload |-> FALSE]

ensureScopesBranch(c, r, cfg, in, authErr) ==
    IF r.err.kind # "nil"
    THEN [ret |-> c, err |-> r.err.kind, cfg |-> cfg, how |-> "none", reload |-> FALSE]
    ELSE IF r.ok
    THEN [ret |-> c, err |-> "nil", cfg |-> cfg, how |-> "none", reload |-> FALSE]
    ELSE IF IsGitHubApp(r.appID) /\ ~(Len(in.githubToken) > 0) /\ in.isTerminal
         THEN IF in.cfgErr
              THEN [ret |-> 0, err |-> "config", cfg |-> cfg, how |-> "reauth",
                    reload |-> FALSE]
              ELSE LET flow == AuthFlowWithConfig(cfg, in) IN
                   IF flow.err # ""
                   THEN [ret |-> 0, err |-> flow.err, cfg |-> flow.cfg, how |-> "reauth",
                         reload |-> FALSE]
                   ELSE IF authErr
                        THEN [ret |-> c, err |-> "authtoken", cfg |-> flow.cfg,
                              how |-> "reauth", reload |-> FALSE]
                        ELSE [ret |-> c, err |-> "nil", cfg |-> flow.cfg,
                              how |-> "reauth", reload |-> TRUE]
         ELSE [ret |-> c, err |-> "Unable to reauthenticate", cfg |-> cfg,
               how |-> "warning", reload |-> FALSE]

\* the inputs ensureScopes reads after HasScopes: the same environment as
\* the callback's, and the outcome of its own authorization flow
EnsureInputs(in, r) ==
    IF r.err.kind = "nil" /\ ~r.ok
           /\ IsGitHubApp(r.appID) /\ ~(Len(in.githubToken) > 0) /\ in.isTerminal
    THEN {e \in CallbackInputs :
            e.githubToken = in.githubToken /\ e.isTerminal = in.isTerminal}
    ELSE {in}

\* the outcomes of the rebuild's ctx.AuthToken(), where a rebuild is tried
RebuildErrors(r, ein) ==
    IF r.err.kind = "nil" /\ ~r.ok
           /\ IsGitHubApp(r.appID) /\ ~(Len(ein.githubToken) > 0) /\ ein.isTerminal
           /\ ~ein.cfgErr /\ ein.flow # "error"
    THEN BOOLEAN ELSE {FALSE}

ensureScopes ==
    /\ hist.qual < MaxCalls
    /\ Len(clients) < MaxClients
    /\ \E c \in 1..Len(clients) :
          \E sent \in {Sent(clients[c], "GET", HasScopesURL)} :
          \E outcome \in Outcomes :
          \E in \in EnvironmentFor(clients[c], sent.at, outcome, issuedScopesWarning, cfgToken) :
          \E st \in {Do(clients[c], sent.at, outcome, issuedScopesWarning, cfgToken, in)} :
          \E body \in BodiesFor(st), wantedScopes \in WantedLists :
          \E r \in {HasScopesResult(st, body, wantedScopes)} :
          \E ein \in EnsureInputs(in, r), verbose \in Verbose :
          \E authErr \in RebuildErrors(r, ein) :
          LET b      == ensureScopesBranch(c, r, st.cfg, ein, authErr)
              called == [clients EXCEPT ![c].token = st.token]
          IN  /\ issuedScopesWarning' = st.flag
              /\ hist' = Reauthenticated(Recorded(hist, st), c, st, in)
              /\ cfgToken' = b.cfg
              /\ clients' =
                   IF b.reload
                   THEN Append(called, Rebuilt(b.cfg, verbose))
                   ELSE called
              /\ last' = Called("ensureScopes", c, sent, st, b.err)
    /\ UNCHANGED <<io, inflight>>

Init ==
    /\ issuedScopesWarning = FALSE
    /\ cfgToken = "T1"
    /\ clients = <<>>
    /\ hist = NoHistory
    /\ last = NoCall
    /\ io = [op |-> "none"]
    /\ inflight = <<>>

Next ==
    \/ NewClient
    \/ apiClientForContext
    \/ REST
    \/ GraphQL
    \/ HasScopes
    \/ ensureScopes

Spec == Init /\ [][Next]_vars

(***************************************************************************)
(* Concurrent callers.  http.Client is used from several goroutines at     *)
(* once; each round trip through the CheckScopes decorator of a client     *)
(* built by apiClientForContext runs its statements in order, and the      *)
(* statements of different round trips interleave.  Nothing in CheckScopes *)
(* locks the flag.                                                         *)
(***************************************************************************)
\* the wanted scope of the first CheckScopes decorator of an option list
WantedOf(opts) ==
    opts[CHOOSE i \in 1..Len(opts) :
            /\ opts[i].kind = "CheckScopes"
            /\ \A j \in 1..(i - 1) : opts[j].kind # "CheckScopes"].name

SetTrip(i, trip) == inflight' = [inflight EXCEPT ![i] = trip]

\* tr.RoundTrip(req) returns to the decorator
ConcSend ==
    /\ Len(inflight) < MaxInflight
    /\ \E c \in 1..Len(clients), outcome \in Outcomes :
          inflight' = Append(inflight,
                             [client |-> c, res |-> outcome.res, err |-> outcome.err,
                              pc |-> "received"])
    /\ UNCHANGED <<issuedScopesWarning, cfgToken, clients, hist, last, io>>

\* the guard, which reads the flag, and the comparison of the scopes
ConcCheck ==
    \E i \in 1..Len(inflight) :
       LET t == inflight[i] IN
       /\ t.pc = "received"
       /\ IF t.err # "" \/ t.res.StatusCode > 299 \/ issuedScopesWarning
          THEN SetTrip(i, [t EXCEPT !.pc = "returned"])
          ELSE IF ~HeaderHas(t.res.Header, httpOAuthAppID)
               THEN SetTrip(i, [t EXCEPT !.pc = "returned"])
               ELSE IF hasWanted(WantedOf(clients[t.client].opts), t.res)
                    THEN SetTrip(i, [t EXCEPT !.pc = "returned"])
                    ELSE SetTrip(i, [t EXCEPT !.pc = "callback"])
       /\ UNCHANGED <<issuedScopesWarning, cfgToken, clients, hist, last, io>>

\* cb(appID) runs and returns
ConcCallback ==
    \E i \in 1..Len(inflight), in \in CallbackInputs :
       LET t  == inflight[i]
           cb == checkScopesFunc(HeaderGet(t.res.Header, httpOAuthAppID),
                                 clients[t.client].token, cfgToken, in)
       IN  /\ t.pc = "callback"
           /\ cfgToken' = cb.cfg
           /\ clients' = [clients EXCEPT ![t.client].token = cb.token]
           /\ hist' = [hist EXCEPT !.fired = @ + 1,
                                   !.ok = @ + (IF cb.err = "" THEN 1 ELSE 0)]
           /\ IF cb.err # ""
              THEN SetTrip(i, [t EXCEPT !.pc = "returned", !.err = cb.err])
              ELSE SetTrip(i, [t EXCEPT !.pc = "set"])
           /\ UNCHANGED <<issuedScopesWarning, last, io>>

\* issuedScopesWarning = true
ConcSetFlag ==
    \E i \in 1..Len(inflight) :
       /\ inflight[i].pc = "set"
       /\ issuedScopesWarning' = TRUE
       /\ SetTrip(i, [inflight[i] EXCEPT !.pc = "returned"])
       /\ UNCHANGED <<cfgToken, clients, hist, last, io>>

ConcClient ==
    /\ clients = <<>>
    /\ apiClientForContext

NextConc ==
    \/ ConcClient
    \/ ConcSend
    \/ ConcCheck
    \/ ConcCallback
    \/ ConcSetFlag

SpecConc == Init /\ [][NextConc]_vars

(***************************************************************************)
(* Response classification on its own: a response that http.Client.Do      *)
(* returned without error, and the caller's target, go through the rest of *)
(* Client.REST and of Client.GraphQL.                                      *)
(***************************************************************************)
ProcessStart ==
    /\ issuedScopesWarning = FALSE
    /\ cfgToken = "T1"
    /\ clients = <<>>
    /\ hist = NoHistory
    /\ last = NoCall
    /\ inflight = <<>>

InitClassify ==
    /\ ProcessStart
    /\ io \in {[op |-> "input",
                resp |-> [StatusCode |-> s, Header |-> <<>>, Body |-> b],
                data |-> d,
                ret |-> [err |-> NoError, data |-> d]] :
                    s \in Statuses, b \in Bodies, d \in Targets}

RESTClassify ==
    /\ io.op = "input"
    /\ io' = [io EXCEPT !.op = "REST", !.ret = RESTResponse(io.resp, io.data)]
    /\ UNCHANGED <<issuedScopesWarning, cfgToken, clients, hist, last, inflight>>

GraphQLClassify ==
    /\ io.op = "input"
    /\ io' = [io EXCEPT !.op = "GraphQL", !.ret = handleResponse(io.resp, io.data)]
    /\ UNCHANGED <<issuedScopesWarning, cfgToken, clients, hist, last, inflight>>

NextClassify ==
    \/ RESTClassify
    \/ GraphQLClassify

SpecClassify == InitClassify /\ [][NextClassify]_vars

(***************************************************************************)
(* Client.HasScopes on its own: the wanted scopes and the response of the  *)
(* identity request go through the rest of Client.HasScopes.               *)
(***************************************************************************)
ScopeNames == {"repo", "read:org", "gist"}

\* granted scopes as the server may write them between the commas
GrantedTokens == {"repo", " read:org", "admin:org ", "Repo"}

HasScopesStatuses == {200, 204, 404}

\* the bodies of the identity response: unreadable, not JSON, or an object
HasScopesBodies ==
    {UnreadableBody, MalformedBody}
        \cup {b \in ObjectBodies :
                /\ b.message = "Not Found" /\ b.id = Absent
                /\ b.data = Absent /\ b.errors = <<>>}

InitHasScopes ==
    /\ ProcessStart
    /\ io \in {[op |-> "input",
                gheHostname |-> h,
                url |-> [host |-> "", path |-> ""],
                resp |-> [StatusCode |-> s,
                          Header |-> MkHeader(oauthClientID, Join(g, ",")),
                          Body |-> b],
                wanted |-> w,
                granted |-> g,
                ret |-> [ok |-> FALSE, appID |-> "", err |-> NoError]] :
                    h \in GheHosts,
                    s \in HasScopesStatuses,
                    b \in HasScopesBodies,
                    w \in SeqsUpTo(ScopeNames, MaxScopes),
                    g \in SeqsUpTo(GrantedTokens, MaxScopes)}

HasScopesClassify ==
    /\ io.op = "input"
    /\ io' = [io EXCEPT !.op = "HasScopes",
                        !.url = HasScopesURL,
                        !.ret = HasScopesResponse(io.resp, io.wanted)]
    /\ UNCHANGED <<issuedScopesWarning, cfgToken, clients, hist, last, inflight>>

NextHasScopes == HasScopesClassify

SpecHasScopes == InitHasScopes /\ [][NextHasScopes]_vars

(***************************************************************************)
(* ensureScopes on its own: one call through a client built by             *)
(* apiClientForContext, with everything it reads drawn at the start.       *)
(***************************************************************************)
EnsureWanted == {<<"read:org">>, <<"repo">>}

EnsureInit(outcome, body, flag, in, ein, authErr, w) ==
    [op |-> "input", outcome |-> outcome, body |-> body, flag |-> flag, in |-> in,
     ein |-> ein, authErr |-> authErr, wantedScopes |-> w,
     has |-> [ok |-> FALSE, appID |-> "", err |-> NoError],
     fired |-> 0, after |-> flag,
     ret |-> [ret |-> 0, err |-> "nil", cfg |-> "T1", how |-> "none", reload |-> FALSE],
     rebuilt |-> Rebuilt("", FALSE)]

InitEnsure ==
    /\ ProcessStart
    /\ \E outcome \in Outcomes, body \in CallBodies, flag \in BOOLEAN, w \in EnsureWanted :
       \E in \in CallbackInputs, authErr \in BOOLEAN :
       \E ein \in {e \in CallbackInputs :
                     e.githubToken = in.githubToken /\ e.isTerminal = in.isTerminal} :
          io = EnsureInit(outcome, body, flag, in, ein, authErr, w)

ensureScopesClassify ==
    /\ io.op = "input"
    /\ \E client \in {Rebuilt("T1", FALSE)} :
       \E sent \in {Sent(client, "GET", HasScopesURL)} :
       \E st \in {Do(client, sent.at, io.outcome, io.flag, "T1", io.in)} :
       \E r \in {HasScopesResult(st, io.body, io.wantedScopes)} :
       \E b \in {ensureScopesBranch(1, r, st.cfg, io.ein, io.authErr)} :
          io' = [io EXCEPT !.op = "ensureScopes", !.has = r, !.fired = st.fired, !.after = st.flag,
                           !.ret = b,
                           !.rebuilt = IF b.reload THEN Rebuilt(b.cfg, FALSE) ELSE @]
    /\ UNCHANGED <<issuedScopesWarning, cfgToken, clients, hist, last, inflight>>

NextEnsure == ensureScopesClassify

SpecEnsure == InitEnsure /\ [][NextEnsure]_vars

(***************************************************************************)
(* Endpoint selection on its own: the value of GITHUB_HOST, a method and a *)
(* path go through the request construction of REST and of GraphQL, up to  *)
(* the request that reaches the sender.                                    *)
(***************************************************************************)
EndpointHosts == {"", "ghe.example.com", "agithub.com:8", "api.github.com.example.org"}

EndpointPaths == {"user", "gists", "repos/o/r/issues", "repos/o/r/issues/1", "orgs/o"}

EndpointMethods == {"GET", "POST", "PATCH"}

EndpointClients ==
    {[opts |-> o, token |-> "T1"] : o \in {ContextOptions(FALSE)} \cup OptionLists}

NotSent == [req |-> NewRequest("", "", ""), sender |-> "", at |-> 0]

InitEndpoint ==
    /\ ProcessStart
    /\ io \in {[op |-> "input", gheHostname |-> h, method |-> m, p |-> q,
                client |-> c, sent |-> NotSent] :
                    h \in EndpointHosts, m \in EndpointMethods,
                    q \in EndpointPaths, c \in EndpointClients}

RESTEndpoint ==
    /\ io.op = "input"
    /\ io' = [io EXCEPT !.op = "REST",
                        !.sent = Sent(io.client, io.method,
                                      RESTURL(io.gheHostname, io.p))]
    /\ UNCHANGED <<issuedScopesWarning, cfgToken, clients, hist, last, inflight>>

GraphQLEndpoint ==
    /\ io.op = "input"
    /\ io' = [io EXCEPT !.op = "GraphQL",
                        !.sent = Sent(io.client, "POST", GraphQLURL(io.gheHostname))]
    /\ UNCHANGED <<issuedScopesWarning, cfgToken, clients, hist, last, inflight>>

NextEndpoint ==
    \/ RESTEndpoint
    \/ GraphQLEndpoint

SpecEndpoint == InitEndpoint /\ [][NextEndpoint]_vars

(***************************************************************************)
(* One CheckScopes decorator on its own: the result of the wrapped sender, *)
(* the flag and the callback's environment go through its round trip.      *)
(***************************************************************************)
CheckedScopes == {"repo", "read:org"}

CheckedAppIDs == {Absent, oauthClientID, "other-app"}

\* what the wrapped sender returns, with the granted scopes g in the header
CheckedOutcomes(appID, g) ==
    {TransportError}
        \cup {[res |-> [StatusCode |-> s, Header |-> MkHeader(appID, Join(g, ","))],
               err |-> ""] : s \in CallStatuses}

CheckedInput(w, a, g, o, f, in) ==
    LET st == [res |-> o.res, err |-> o.err, flag |-> f, token |-> "T1",
               cfg |-> "T1", qual |-> FALSE, sat |-> FALSE, fired |-> 0,
               cbErr |-> FALSE, how |-> ""]
    IN  [op |-> "input", wantedScope |-> w, appID |-> a, granted |-> g,
         st |-> st, in |-> in, ret |-> st]

InitCheckScopes ==
    /\ ProcessStart
    /\ \E w \in CheckedScopes, a \in CheckedAppIDs,
          g \in SeqsUpTo(GrantedTokens, MaxScopes) :
          \E o \in CheckedOutcomes(a, g), f \in BOOLEAN, in \in CallbackInputs :
             io = CheckedInput(w, a, g, o, f, in)

CheckScopesClassify ==
    /\ io.op = "input"
    /\ io' = [io EXCEPT !.op = "CheckScopes",
                        !.ret = CheckScopes(io.wantedScope, io.st, io.in)]
    /\ UNCHANGED <<issuedScopesWarning, cfgToken, clients, hist, last, inflight>>

NextCheckScopes == CheckScopesClassify

SpecCheckScopes == InitCheckScopes /\ [][NextCheckScopes]_vars

(***************************************************************************)
(* Composition of the options on its own.  A transport is the sequence of  *)
(* its layers, the sender first and the outermost decorator last; a round  *)
(* trip enters the layers from the outermost in, reaches the sender, and   *)
(* returns through them from the innermost out.                            *)
(***************************************************************************)
DefaultTransport == <<[kind |-> "DefaultTransport", at |-> 0]>>

\* tr = opt(tr) for the option at position i
ApplyOptionInnermost(opts, i, tr) ==
    IF opts[i].kind = "ReplaceTripper"
    THEN <<[kind |-> "ReplaceTripper", at |-> i]>>
    ELSE <<tr[1], [kind |-> opts[i].kind, at |-> i]>> \o Tail(tr)

ApplyOptionKeepsWrapped(opts, i, tr) ==
    Append(tr, [kind |-> opts[i].kind, at |-> i])

ApplyOption(opts, i, tr) ==
    IF opts[i].kind = "ReplaceTripper"
    THEN <<[kind |-> "ReplaceTripper", at |-> i]>>
    ELSE Append(tr, [kind |-> opts[i].kind, at |-> i])

\* the transport after the first n options
RECURSIVE Wrapped(_, _)
Wrapped(opts, n) ==
    IF n = 0 THEN DefaultTransport
    ELSE ApplyOption(opts, n, Wrapped(opts, n - 1))

NewHTTPClient(opts) == Wrapped(opts, Len(opts))

Seen(ev, layer) == [ev |-> ev, kind |-> layer.kind, at |-> layer.at]

\* what the layers of tr up to the k-th see of one round trip, in order
RECURSIVE RoundTrip(_, _)
RoundTrip(tr, k) ==
    IF k = 1 THEN <<Seen("send", tr[1])>>
    ELSE <<Seen("request", tr[k])>> \o RoundTrip(tr, k - 1) \o <<Seen("response", tr[k])>>

ComposeOptions ==
    {Opt("AddHeader", "Accept", "application/json"),
     Opt("AddHeaderFunc", "Authorization", ""),
     Opt("CheckScopes", "repo", ""),
     Opt("VerboseLog", "", ""),
     Opt("ReplaceTripper", "", "")}

InitCompose ==
    /\ ProcessStart
    /\ io \in {[op |-> "input", opts |-> o, tr |-> <<>>, trace |-> <<>>] :
                    o \in SeqsUpTo(ComposeOptions, MaxOpts)}

NewHTTPClientCompose ==
    /\ io.op = "input"
    /\ io' = [io EXCEPT !.op = "client", !.tr = NewHTTPClient(io.opts)]
    /\ UNCHANGED <<issuedScopesWarning, cfgToken, clients, hist, last, inflight>>

RoundTripCompose ==
    /\ io.op = "client"
    /\ io' = [io EXCEPT !.op = "trip", !.trace = RoundTrip(io.tr, Len(io.tr))]
    /\ UNCHANGED <<issuedScopesWarning, cfgToken, clients, hist, last, inflight>>

NextCompose ==
    \/ NewHTTPClientCompose
    \/ RoundTripCompose

SpecCompose == InitCompose /\ [][NextCompose]_vars

(***************************************************************************)
(* Claims about the process.                                               *)
(***************************************************************************)
AddsAuthorization(client) ==
    \E i \in 1..Len(client.opts) :
        /\ client.opts[i].kind \in {"AddHeader", "AddHeaderFunc"}
        /\ ToLower(client.opts[i].name) = "authorization"

OffDomain(host) == ~HasSuffix(Hostname(host), ".github.com")

\* C1: a request whose host does not end in ".github.com" reaches the
\* wrapped sender without an Authorization header, whatever AddHeader and
\* AddHeaderFunc decorators named Authorization (in any letter case) the
\* client was built with.
C1_NoCredentialOffDomain ==
    (last.op # "none" /\ OffDomain(last.host)) => last.auth = <<>>

C1_Witness ==
    /\ last.op \in {"REST", "GraphQL"}
    /\ last.host = "agithub.com:8"
    /\ AddsAuthorization(clients[last.client])
    /\ last.auth = <<>>

C3_FlagIsLatch ==
    /\ ~issuedScopesWarning
    /\ [][issuedScopesWarning => issuedScopesWarning']_vars

C3_Witness ==
    /\ issuedScopesWarning
    /\ last.op = "ensureScopes"
    /\ hist.qual > hist.untilOk

(***************************************************************************)
(* Claims about concurrent callers.                                        *)
(***************************************************************************)
\* C4: when concurrent calls each receive a qualifying response whose scopes
\* do not satisfy the requirement, no call evaluates the flag between
\* another call's read and its write, so that callbacks which return without
\* error are invoked at most once in total.
C4_AtMostOneCallback ==
    /\ Cardinality({i \in 1..Len(inflight) : inflight[i].pc \in {"callback", "set"}}) <= 1
    /\ hist.ok <= 1

(***************************************************************************)
(* Claims about the response classification.                               *)
(***************************************************************************)
Classified == io.op \in {"REST", "GraphQL"}

InSuccessRange(status) == status \in 200..299

\* the messages of a non-empty error list, one per line
RECURSIVE OnePerLine(_)
OnePerLine(errors) ==
    IF Len(errors) = 1 THEN errors[1].Message
    ELSE errors[1].Message \o "\n" \o OnePerLine(Tail(errors))

\* C5: a success status and a decoded envelope with a non-empty error list,
\* with or without data, make GraphQL return a GraphQLErrorResponse holding
\* the errors in response order, whose message is "GraphQL error: " followed
\* by the messages joined by newlines.
C5_GraphQLErrorsReturned ==
    (/\ io.op = "GraphQL"
     /\ InSuccessRange(io.resp.StatusCode)
     /\ io.resp.Body.readable /\ io.resp.Body.wellFormed
     /\ Len(io.resp.Body.errors) > 0)
    => /\ io.ret.err.kind = "GraphQLErrorResponse"
       /\ io.ret.err.Errors = io.resp.Body.errors
       /\ GraphQLErrorResponseError(io.ret.err)
             = "GraphQL error: " \o OnePerLine(io.resp.Body.errors)

C5_Witness ==
    /\ io.op = "GraphQL"
    /\ io.resp.StatusCode = 200
    /\ io.resp.Body.data # Absent
    /\ Len(io.resp.Body.errors) = 2
    /\ io.resp.Body.errors[1] # io.resp.Body.errors[2]
    /\ io.ret.err.kind = "GraphQLErrorResponse"

\* the message member of a body, when it is there as a string
MessageMember(body) ==
    IF body.readable /\ body.wellFormed /\ body.message \notin {Absent, NonString}
    THEN body.message ELSE ""

Undecodable(body) ==
    body.readable /\ (~body.wellFormed \/ body.message = NonString)

C8_RESTNoContentAndUnmarshal ==
    (io.op = "REST" /\ InSuccessRange(io.resp.StatusCode))
    => /\ io.resp.StatusCode = 204
            => (io.ret.err = NoError /\ io.ret.data = io.data)
       /\ (/\ io.resp.StatusCode # 204
           /\ io.resp.Body.readable /\ io.resp.Body.wellFormed)
            => /\ io.ret.err = NoError
               /\ io.ret.data.id =
                     (IF io.resp.Body.id = Absent THEN io.data.id ELSE io.resp.Body.id)
               /\ io.ret.data.login = io.data.login

C8_Witness ==
    /\ io.op = "REST"
    /\ io.resp.StatusCode = 204
    /\ io.resp.Body.readable /\ io.resp.Body.wellFormed
    /\ io.resp.Body.id = "X"
    /\ io.data.id = "old"
    /\ io.ret.data.id = "old"

\* C9: GraphQL on a success status and a well-formed envelope without
\* errors returns no error, and the target holds the content of the
\* envelope's data member.
C9_GraphQLDataDecoded ==
    (/\ io.op = "GraphQL"
     /\ InSuccessRange(io.resp.StatusCode)
     /\ io.resp.Body.readable /\ io.resp.Body.wellFormed
     /\ io.resp.Body.errors = <<>>)
    => /\ io.ret.err = NoError
       /\ io.ret.data.login =
             (IF io.resp.Body.data = Absent THEN io.data.login ELSE io.resp.Body.data)
       /\ io.ret.data.id = io.data.id

C9_Witness ==
    /\ io.op = "GraphQL"
    /\ io.resp.StatusCode = 200
    /\ io.resp.Body.data = "octocat"
    /\ io.resp.Body.errors = <<>>
    /\ io.data = BlankTarget
    /\ io.ret.err = NoError
    /\ io.ret.data.login = "octocat"

\* a wanted scope is granted by a token: the token is the scope, or for a
\* scope "read:x" the token is "admin:x", once the whitespace is trimmed
Grants(token, w) ==
    \/ TrimSpace(token) = w
    \/ HasPrefix(w, "read:") /\ TrimSpace(token) = "admin:" \o TrimPrefix(w, "read:")

\* C10: on a 200 response HasScopes returns true exactly when every wanted
\* scope, or for a "read:" scope its "admin:" analog, equals some
\* comma-separated token of the granted-scopes header after trimming,
\* whatever entries are repeated in the wanted list or in the header.
C10_HasScopesIffAllGranted ==
    (io.op = "HasScopes" /\ io.resp.StatusCode = 200)
    => (io.ret.ok <=>
            \A i \in 1..Len(io.wanted) :
                \E j \in 1..Len(io.granted) : Grants(io.granted[j], io.wanted[i]))

(***************************************************************************)
(* Claims about the composition of the options.                            *)
(***************************************************************************)
Replaced(opts) == {i \in 1..Len(opts) : opts[i].kind = "ReplaceTripper"}

\* the round trip of the decorators after position i around the sender
\* placed at position i
WrapsInOrder(opts, trace, i) ==
    LET n == Len(opts) - i IN
    /\ Len(trace) = 2 * n + 1
    /\ \A k \in 1..n :
          /\ trace[k] = [ev |-> "request", kind |-> opts[Len(opts) + 1 - k].kind,
                         at |-> Len(opts) + 1 - k]
          /\ trace[n + 1 + k] = [ev |-> "response", kind |-> opts[i + k].kind,
                                 at |-> i + k]
    /\ trace[n + 1].ev = "send"
    /\ trace[n + 1].at = i

\* C11: the last option of the list is the outermost decorator: the
\* decorators see the request in reverse list order, then the base sender is
\* reached, and they see the response in list order.
C11_LastOptionOutermost ==
    (io.op = "trip" /\ Replaced(io.opts) = {})
    => /\ WrapsInOrder(io.opts, io.trace, 0)
       /\ io.trace[Len(io.opts) + 1].kind = "DefaultTransport"

C11_Witness ==
    /\ io.op = "trip"
    /\ Len(io.opts) = 3
    /\ Replaced(io.opts) = {}
    /\ io.opts[1].kind = "CheckScopes"
    /\ io.opts[3].kind = "AddHeaderFunc"
    /\ io.trace[1] = [ev |-> "request", kind |-> "AddHeaderFunc", at |-> 3]
    /\ io.trace[7] = [ev |-> "response", kind |-> "AddHeaderFunc", at |-> 3]

\* what C18 says of a ReplaceTripper at position i
ReachesReplacement(opts, trace, i) ==
    /\ \E k \in 1..Len(trace) :
          trace[k] = [ev |-> "send", kind |-> "ReplaceTripper", at |-> i]
    /\ \A k \in 1..Len(trace) :
          trace[k].kind # "DefaultTransport" /\ trace[k].at >= i

\* C18 (as claimed): for a ReplaceTripper at any position i of the list, the
\* request reaches its sender and never the default sender nor a decorator
\* listed before i, and the decorators listed after i wrap it in order.
C18_EveryReplacementReached ==
    io.op = "trip"
    => \A i \in Replaced(io.opts) : ReachesReplacement(io.opts, io.trace, i)

\* C18 (amended): for the last ReplaceTripper of the list, at position i,
\* the request reaches its sender and never the default sender, an earlier
\* ReplaceTripper's sender nor a decorator listed before i, and the
\* decorators listed after i wrap it and see request and response in the
\* normal composition order.
C18_LastReplacementReached ==
    io.op = "trip"
    => \A i \in Replaced(io.opts) :
          (\A j \in Replaced(io.opts) : j <= i)
          => /\ ReachesReplacement(io.opts, io.trace, i)
             /\ WrapsInOrder(io.opts, io.trace, i)
             /\ RequestPath(io.opts, Len(io.opts), NewRequest("GET", defaultHost, "user"),
                            "T1").at = i

C18_Witness ==
    /\ io.op = "trip"
    /\ Len(io.opts) = 3
    /\ io.opts[1].kind = "CheckScopes"
    /\ io.opts[2].kind = "ReplaceTripper"
    /\ io.opts[3].kind = "AddHeader"
    /\ io.trace = <<[ev |-> "request", kind |-> "AddHeader", at |-> 3],
                    [ev |-> "send", kind |-> "ReplaceTripper", at |-> 2],
                    [ev |-> "response", kind |-> "AddHeader", at |-> 3]>>

(***************************************************************************)
(* Claims about one CheckScopes decorator.                                 *)
(***************************************************************************)
\* C12: a response without the app-identifier header passes through: the
\* callback is not invoked, the flag keeps its value, and the response is
\* returned as it came with no error, whatever the granted-scopes header is.
C12_NoAppHeaderPassThrough ==
    (io.op = "CheckScopes" /\ io.st.err = "" /\ io.appID = Absent)
    => /\ io.ret.fired = 0
       /\ io.ret.flag = io.st.flag
       /\ io.ret.res = io.st.res
       /\ io.ret.err = ""
       /\ io.ret.token = io.st.token /\ io.ret.cfg = io.st.cfg

C12_Witness ==
    /\ io.op = "CheckScopes"
    /\ io.appID = Absent
    /\ io.wantedScope = "repo"
    /\ io.granted = <<"admin:org ">>
    /\ io.st.res.StatusCode = 200
    /\ ~io.st.flag
    /\ io.ret.fired = 0 /\ ~io.ret.flag

Qualifying(st) ==
    st.err = "" /\ st.res.StatusCode <= 299 /\ HeaderHas(st.res.Header, "X-Oauth-Client-Id")

Satisfied(granted, w) == \E j \in 1..Len(granted) : Grants(granted[j], w)

\* C13: while the flag is false, the callback is invoked on a qualifying
\* response exactly when no trimmed token of the granted-scopes header is
\* the wanted scope or, for a "read:" scope, its "admin:" analog; a
\* satisfied response invokes no callback and leaves the flag false.
C13_CallbackIffNotSatisfied ==
    (io.op = "CheckScopes" /\ ~io.st.flag /\ Qualifying(io.st))
    => /\ io.ret.fired = (IF Satisfied(io.granted, io.wantedScope) THEN 0 ELSE 1)
       /\ Satisfied(io.granted, io.wantedScope)
            => (~io.ret.flag /\ io.ret.err = "" /\ io.ret.res = io.st.res)

C13_Witness ==
    /\ io.op = "CheckScopes"
    /\ ~io.st.flag
    /\ io.st.res.StatusCode = 299
    /\ io.appID = oauthClientID
    /\ io.wantedScope = "read:org"
    /\ io.granted = <<"Repo", "admin:org ">>
    /\ io.ret.fired = 0 /\ ~io.ret.flag

(***************************************************************************)
(* Claims about what a call returns for a response.                        *)
(***************************************************************************)
MalformedSuccess ==
    /\ Classified
    /\ InSuccessRange(io.resp.StatusCode)
    /\ io.resp.Body.readable /\ ~io.resp.Body.wellFormed

TaxonomyKinds == {"HTTPError", "GraphQLErrorResponse"}

GenericKinds == {"read", "json"}

\* C16 (as claimed): a success status with a body that is not well-formed
\* JSON makes REST and GraphQL return a generic decode error: never
\* success, never an HTTPError or a GraphQLErrorResponse.
C16_MalformedSuccessIsDecodeError ==
    MalformedSuccess => io.ret.err.kind = "json"

\* C16 (amended): a success status with a body that is not well-formed JSON
\* makes GraphQL, and REST on every status but 204, return a generic decode
\* error, never success, an HTTPError or a GraphQLErrorResponse; REST on a
\* 204 does not read the body and returns no error.
C16_MalformedSuccessUnless204 ==
    MalformedSuccess
    => IF io.op = "REST" /\ io.resp.StatusCode = 204
       THEN io.ret.err = NoError
       ELSE io.ret.err.kind = "json" /\ io.ret.data = io.data

C16_Witness ==
    /\ io.op = "GraphQL"
    /\ io.resp.StatusCode = 204
    /\ io.resp.Body = MalformedBody
    /\ io.ret.err.kind = "json"

\* the response is one a call is entitled to report as success, as C20 has it
DecodedSuccess ==
    /\ InSuccessRange(io.resp.StatusCode)
    /\ io.resp.Body.readable /\ io.resp.Body.wellFormed
    /\ io.op = "GraphQL" => io.resp.Body.errors = <<>>

\* C20 (as claimed): a call returns no error only if the status is in the
\* success range, the body decoded and, for GraphQL, the error list is
\* empty; otherwise it returns one of HTTPError, GraphQLErrorResponse or a
\* generic error.
C20_NilOnlyIfDecodedSuccess ==
    Classified
    => /\ io.ret.err = NoError => DecodedSuccess
       /\ io.ret.err.kind \in {"nil"} \cup TaxonomyKinds \cup GenericKinds

\* C20 (amended): a call returns no error exactly when the status is in the
\* success range and either the call is REST on a 204, whose body is not
\* read, or the body is read and decoded and, for GraphQL, the error list is
\* empty; in every other case it returns exactly one of: an HTTPError (the
\* status is outside the success range), a GraphQLErrorResponse (GraphQL
\* with a non-empty error list) or a generic read or decode error.
C20_NilOnlyIfSuccessOr204 ==
    Classified
    => /\ io.ret.err = NoError
            <=> \/ DecodedSuccess
                \/ io.op = "REST" /\ io.resp.StatusCode = 204
       /\ io.ret.err.kind \in {"nil"} \cup TaxonomyKinds \cup GenericKinds
       /\ io.ret.err.kind = "HTTPError" <=> ~InSuccessRange(io.resp.StatusCode)
       /\ io.ret.err.kind = "GraphQLErrorResponse"
            <=> /\ io.op = "GraphQL"
                /\ InSuccessRange(io.resp.StatusCode)
                /\ io.resp.Body.readable /\ io.resp.Body.wellFormed
                /\ io.resp.Body.errors # <<>>

C20_Witness ==
    /\ io.op = "REST"
    /\ io.resp.StatusCode = 299
    /\ io.resp.Body = UnreadableBody
    /\ io.ret.err.kind = "read"

(***************************************************************************)
(* Claims about the callback's error and the token of a client.            *)
(***************************************************************************)
CallbackErrors == {"config", "authflow"}

\* C14: when the callback of CheckScopes returns an error during a REST or
\* GraphQL call, the call returns that error: it does not report success
\* and does not replace the error by another.
C14_CallbackErrorReturned ==
    [][(/\ hist'.fired - hist'.ok > hist.fired - hist.ok
        /\ last'.op \in {"REST", "GraphQL"})
       => last'.err \in CallbackErrors]_vars

C14_Witness ==
    /\ last.op = "GraphQL"
    /\ last.err = "authflow"
    /\ hist.fired = 1 /\ hist.ok = 0

\* a step that makes a call through client c
CallThrough(c) ==
    /\ c \in 1..Len(clients)
    /\ last'.client = c
    /\ last'.op # "none"
    /\ Len(clients') = Len(clients) \/ last' # last

BuiltByContext(client) == \E verbose \in BOOLEAN : client.opts = ContextOptions(verbose)

\* C15: once the callback of a client built by apiClientForContext has
\* completed a reauthentication that yields a new token, every later
\* request through that client to the service's domain carries "token "
\* and the new token as its only Authorization value.
C15_NewTokenOnLaterRequests ==
    [][(/\ hist.reauthClient # 0
        /\ CallThrough(hist.reauthClient)
        /\ BuiltByContext(clients[hist.reauthClient])
        /\ ~OffDomain(last'.host))
       => last'.auth = <<"token " \o hist.reauthToken>>]_vars

C15_Witness ==
    /\ hist.reauthClient = 1
    /\ hist.reauthToken = "T2"
    /\ hist.qual = 2
    /\ last.client = 1
    /\ last.op = "REST"
    /\ last.host = "api.github.com"
    /\ last.auth = <<"token T2">>

(***************************************************************************)
(* Claims about the endpoint of a call.                                    *)
(***************************************************************************)
\* C17: with the host override unset or empty, REST(method, p) goes to the
\* default host at path p and GraphQL to the default host's graphql
\* endpoint; with the override naming host H, REST goes to H under
\* api/v3/p and GraphQL to H under api/graphql, and neither goes to the
\* default host.
C17_EndpointFollowsOverride ==
    /\ io.op = "REST"
         => /\ io.sent.req.method = io.method
            /\ IF io.gheHostname = ""
               THEN io.sent.req.host = "api.github.com" /\ io.sent.req.path = io.p
               ELSE /\ io.sent.req.host = io.gheHostname
                    /\ io.sent.req.host # "api.github.com"
                    /\ io.sent.req.path = "api/v3/" \o io.p
    /\ io.op = "GraphQL"
         => /\ io.sent.req.method = "POST"
            /\ IF io.gheHostname = ""
               THEN io.sent.req.host = "api.github.com" /\ io.sent.req.path = "graphql"
               ELSE /\ io.sent.req.host = io.gheHostname
                    /\ io.sent.req.host # "api.github.com"
                    /\ io.sent.req.path = "api/graphql"

C17_Witness ==
    /\ io.op = "REST"
    /\ io.gheHostname = "ghe.example.com"
    /\ io.p = "repos/o/r/issues"
    /\ io.sent.req.host = "ghe.example.com"
    /\ io.sent.req.path = "api/v3/repos/o/r/issues"

(***************************************************************************)
(* Claims about ensureScopes.                                              *)
(***************************************************************************)
\* ensureScopes may run the authorization flow, and the flow succeeds
FlowSucceeds ==
    /\ io.has.err = NoError /\ ~io.has.ok
    /\ io.has.appID = oauthClientID
    /\ io.ein.githubToken = "" /\ io.ein.isTerminal
    /\ ~io.ein.cfgErr /\ io.ein.flow # "error"

\* what C19 says of the cases that do not rebuild the client
NoBranchUnlessMissing ==
    /\ (io.has.err = NoError /\ io.has.ok)
         => (io.ret.ret = 1 /\ io.ret.err = "nil" /\ io.ret.how = "none" /\ ~io.ret.reload)
    /\ io.has.err # NoError
         => (io.ret.err = io.has.err.kind /\ io.ret.how = "none" /\ ~io.ret.reload)
    /\ io.ret.how # "none" => (io.has.err = NoError /\ ~io.has.ok)

\* C19 (as claimed): ensureScopes drives its interactive-or-warning branch
\* only when HasScopes reports the scopes missing; it returns the original
\* client and no error when they are present, the error of HasScopes when
\* it fails, and, when the interactive reauthentication succeeds, a client
\* rebuilt by apiClientForContext with the refreshed credential and no error.
C19_RebuiltAfterReauthentication ==
    io.op = "ensureScopes"
    => /\ NoBranchUnlessMissing
       /\ FlowSucceeds
            => /\ io.ret.reload /\ io.ret.err = "nil"
               /\ io.rebuilt = [opts |-> ContextOptions(FALSE), token |-> io.ein.flow]

\* C19 (amended): as claimed, except that after a successful interactive
\* reauthentication ensureScopes returns what apiClientForContext returns:
\* the rebuilt client with the refreshed credential and no error, or, when
\* the rebuild fails, the original client and the rebuild's error.
C19_RebuiltUnlessRebuildFails ==
    io.op = "ensureScopes"
    => /\ NoBranchUnlessMissing
       /\ FlowSucceeds
            => IF io.authErr
               THEN io.ret.ret = 1 /\ io.ret.err = "authtoken" /\ ~io.ret.reload
               ELSE /\ io.ret.reload /\ io.ret.err = "nil"
                    /\ io.rebuilt = [opts |-> ContextOptions(FALSE),
                                     token |-> io.ein.flow]

C19_Witness ==
    /\ io.op = "ensureScopes"
    /\ FlowSucceeds
    /\ ~io.authErr
    /\ io.wantedScopes = <<"read:org">>
    /\ io.ret.reload /\ io.ret.err = "nil" /\ io.ret.how = "reauth"
    /\ io.rebuilt.token = "T2"


(***************************************************************************)
(* The issue commands, each applied to one run of the command: what the    *)
(* command line, the terminal and the service answer.  The result of a     *)
(* run is the error returned, the line printed, the requests made through  *)
(* the api package in order, and whether a browser command was run.        *)
(***************************************************************************)
LookupErrors == {"GraphQLErrorResponse", "HTTPError"}

ParseErrors == {"title", "body", "assignees", "labels", "projects", "milestone"}

SurveyActions == {"SubmitAction", "PreviewAction", "CancelAction"}

NoRun ==
    [err |-> "", out |-> "", requests |-> <<>>, browser |-> FALSE]

Returned(err, out, requests) ==
    [err |-> err, out |-> out, requests |-> requests, browser |-> FALSE]

\* return utils.OpenInBrowser(openURL)
OpenInBrowser(run, requests) ==
    [err |-> run.browserErr, out |-> "Opening in your browser.",
     requests |-> requests, browser |-> TRUE]

issueCloseUnconditional(run) ==
    IF run.authErr THEN Returned("auth", "", <<>>)
    ELSE IF run.lookup.err # "" THEN Returned(run.lookup.err, "", <<"issueFromArg">>)
    ELSE IF run.mutationErr # ""
         THEN Returned(run.mutationErr, "", <<"issueFromArg", "IssueClose">>)
    ELSE Returned("", "Closed issue", <<"issueFromArg", "IssueClose">>)

issueClose(run) ==
    IF run.authErr THEN Returned("auth", "", <<>>)
    ELSE IF run.lookup.err # "" THEN Returned(run.lookup.err, "", <<"issueFromArg">>)
    ELSE IF run.lookup.Closed
         THEN Returned("", "is already closed", <<"issueFromArg">>)
    ELSE IF run.mutationErr # ""
         THEN Returned(run.mutationErr, "", <<"issueFromArg", "IssueClose">>)
    ELSE Returned("", "Closed issue", <<"issueFromArg", "IssueClose">>)

issueReopen(run) ==
    IF run.authErr THEN Returned("auth", "", <<>>)
    ELSE IF run.lookup.err # "" THEN Returned(run.lookup.err, "", <<"issueFromArg">>)
    ELSE IF ~run.lookup.Closed
         THEN Returned("", "is already open", <<"issueFromArg">>)
    ELSE IF run.mutationErr # ""
         THEN Returned(run.mutationErr, "", <<"issueFromArg", "IssueReopen">>)
    ELSE Returned("", "Reopened issue", <<"issueFromArg", "IssueReopen">>)

issueViewBrowserFirst(run) ==
    IF run.authErr THEN Returned("auth", "", <<>>)
    ELSE IF run.webErr THEN Returned("flag", "", <<>>)
    ELSE IF run.web THEN OpenInBrowser(run, <<>>)
    ELSE IF run.lookup.err # "" THEN Returned(run.lookup.err, "", <<"issueFromArg">>)
    ELSE IF run.tty THEN Returned("", "printHumanIssuePreview", <<"issueFromArg">>)
    ELSE Returned("", "printRawIssuePreview", <<"issueFromArg">>)

issueView(run) ==
    IF run.authErr THEN Returned("auth", "", <<>>)
    ELSE IF run.lookup.err # "" THEN Returned(run.lookup.err, "", <<"issueFromArg">>)
    ELSE IF run.webErr THEN Returned("flag", "", <<"issueFromArg">>)
    ELSE IF run.web THEN OpenInBrowser(run, <<"issueFromArg">>)
    ELSE IF run.tty THEN Returned("", "printHumanIssuePreview", <<"issueFromArg">>)
    ELSE Returned("", "printRawIssuePreview", <<"issueFromArg">>)

\* issueCreate from the survey or the flags on: the preview in the browser
\* or the creation request
issueCreateAction(run, action) ==
    IF action = "PreviewAction" THEN OpenInBrowser(run, <<"GitHubRepo">>)
    ELSE IF run.metadataErr # ""
         THEN Returned(run.metadataErr, "", <<"GitHubRepo", "addMetadataToIssueParams">>)
    ELSE IF run.createErr # ""
         THEN Returned(run.createErr, "",
                       <<"GitHubRepo", "addMetadataToIssueParams", "IssueCreate">>)
    ELSE Returned("", "newIssue.URL",
                  <<"GitHubRepo", "addMetadataToIssueParams", "IssueCreate">>)

\* issueCreate from the survey on, or from the flags when both were given
issueCreateSurvey(run) ==
    IF ~(run.titleChanged /\ run.bodyChanged)
    THEN IF run.survey = "error"
         THEN Returned("could not collect title and/or body", "", <<"GitHubRepo">>)
         ELSE IF run.survey = "CancelAction"
              THEN Returned("", "Discarding.", <<"GitHubRepo">>)
         ELSE issueCreateAction(run, run.survey)
    ELSE IF run.title = "" THEN Returned("title can't be blank", "", <<"GitHubRepo">>)
    ELSE issueCreateAction(run, "SubmitAction")

issueCreateNoTerminalCheck(run) == issueCreateSurvey(run)

\* issueCreate once the repository is known to accept issues
issueCreateInteractive(run) ==
    IF ~(run.titleChanged /\ run.bodyChanged) /\ ~run.tty
    THEN Returned("must provide --title and --body when not attached to a terminal",
                  "", <<"GitHubRepo">>)
    ELSE issueCreateSurvey(run)

issueCreate(run) ==
    IF run.authErr THEN Returned("auth", "", <<>>)
    ELSE IF run.baseRepoErr THEN Returned("determineBaseRepo", "", <<>>)
    ELSE IF run.parseErr # "" THEN Returned("could not parse " \o run.parseErr, "", <<>>)
    ELSE IF ~run.webErr /\ run.web THEN OpenInBrowser(run, <<>>)
    ELSE IF run.repo \in LookupErrors THEN Returned(run.repo, "", <<"GitHubRepo">>)
    ELSE IF run.repo = "disabled"
         THEN Returned("the repository has disabled issues", "", <<"GitHubRepo">>)
    ELSE issueCreateInteractive(run)

\* the runs of issueView, issueClose and issueReopen
IssueRuns ==
    [authErr : BOOLEAN, lookup : [err : {""} \cup LookupErrors, Closed : BOOLEAN],
     mutationErr : {"", "HTTPError"}, web : BOOLEAN, webErr : BOOLEAN, tty : BOOLEAN,
     browserErr : {"", "exec"}]

\* the runs of issueCreate
CreateRuns ==
    [authErr : BOOLEAN, baseRepoErr : BOOLEAN, parseErr : {""} \cup ParseErrors,
     web : BOOLEAN, webErr : {FALSE}, title : {"", "t"},
     repo : LookupErrors \cup {"disabled", "enabled"},
     titleChanged : BOOLEAN, bodyChanged : BOOLEAN, tty : BOOLEAN,
     survey : SurveyActions \cup {"error"}, metadataErr : {"", "HTTPError"},
     createErr : {"", "HTTPError"}, browserErr : {""}]

InitIssue ==
    /\ ProcessStart
    /\ \/ \E run \in IssueRuns : io = [op |-> "issue", run |-> run, ret |-> NoRun]
       \/ \E run \in CreateRuns : io = [op |-> "create", run |-> run, ret |-> NoRun]

issueViewRun ==
    /\ io.op = "issue"
    /\ io' = [io EXCEPT !.op = "issueView", !.ret = issueView(io.run)]
    /\ UNCHANGED <<issuedScopesWarning, cfgToken, clients, hist, last, inflight>>

issueCloseRun ==
    /\ io.op = "issue"
    /\ io' = [io EXCEPT !.op = "issueClose", !.ret = issueClose(io.run)]
    /\ UNCHANGED <<issuedScopesWarning, cfgToken, clients, hist, last, inflight>>

issueReopenRun ==
    /\ io.op = "issue"
    /\ io' = [io EXCEPT !.op = "issueReopen", !.ret = issueReopen(io.run)]
    /\ UNCHANGED <<issuedScopesWarning, cfgToken, clients, hist, last, inflight>>

issueCreateRun ==
    /\ io.op = "create"
    /\ io' = [io EXCEPT !.op = "issueCreate", !.ret = issueCreate(io.run)]
    /\ UNCHANGED <<issuedScopesWarning, cfgToken, clients, hist, last, inflight>>

NextIssue == issueViewRun \/ issueCloseRun \/ issueReopenRun \/ issueCreateRun

SpecIssue == InitIssue /\ [][NextIssue]_vars

(***************************************************************************)
(* C21.  issueClose and issueReopen are no-ops on an issue that is already *)
(* in the target state: for a looked-up issue that is already closed,      *)
(* issueClose sends no close request, reports that it is already closed    *)
(* and returns no error; likewise issueReopen for an issue that is already *)
(* open.  The mutation request is sent only when the issue was looked up   *)
(* and is in the opposite state.                                           *)
(***************************************************************************)
LookedUp(run) == ~run.authErr /\ run.lookup.err = ""

Requested(ret, name) == \E i \in 1..Len(ret.requests) : ret.requests[i] = name

\* C21: issueClose on a closed issue and issueReopen on an open issue send
\* no mutation, report the state and return no error; the mutation is sent
\* only for a looked-up issue in the opposite state.
C21_NoOpInTargetState ==
    /\ io.op = "issueClose" =>
          /\ (LookedUp(io.run) /\ io.run.lookup.Closed) =>
                /\ ~Requested(io.ret, "IssueClose")
                /\ io.ret.out = "is already closed"
                /\ io.ret.err = ""
          /\ Requested(io.ret, "IssueClose") =>
                (LookedUp(io.run) /\ ~io.run.lookup.Closed)
    /\ io.op = "issueReopen" =>
          /\ (LookedUp(io.run) /\ ~io.run.lookup.Closed) =>
                /\ ~Requested(io.ret, "IssueReopen")
                /\ io.ret.out = "is already open"
                /\ io.ret.err = ""
          /\ Requested(io.ret, "IssueReopen") =>
                (LookedUp(io.run) /\ io.run.lookup.Closed)

C21_Witness ==
    /\ io.op = "issueClose"
    /\ LookedUp(io.run) /\ io.run.lookup.Closed
    /\ io.run.mutationErr # ""
    /\ io.ret.out = "is already closed" /\ io.ret.err = ""

(***************************************************************************)
(* C22.  issueView with --web opens the browser only after the issue       *)
(* lookup has succeeded: when the lookup fails, issueView returns the      *)
(* error of the lookup and runs no browser command.                        *)
(***************************************************************************)
C22_BrowserOnlyAfterLookup ==
    (io.op = "issueView" /\ io.run.web) =>
        /\ io.ret.browser => LookedUp(io.run)
        /\ (~io.run.authErr /\ io.run.lookup.err # "") =>
              (io.ret.err = io.run.lookup.err /\ ~io.ret.browser)

C22_Witness ==
    /\ io.op = "issueView" /\ io.run.web /\ ~io.run.webErr
    /\ ~io.run.authErr /\ io.run.lookup.err = "GraphQLErrorResponse"
    /\ io.ret.err = "GraphQLErrorResponse" /\ ~io.ret.browser

(***************************************************************************)
(* C23.  issueCreate without --web, when --title and --body were not both  *)
(* given and the command is not attached to a terminal, sends no           *)
(* issue-creation request and fails; the error is "must provide --title    *)
(* and --body when not attached to a terminal" when the steps before the   *)
(* check succeed: the client is built, the base repository is determined,  *)
(* the flags parse, and the repository is found and has issues enabled.    *)
(* As worded without that condition, the claim fails for a repository      *)
(* that has disabled issues, among others.                                 *)
(***************************************************************************)
NonInteractiveIncomplete(run) ==
    /\ ~(~run.webErr /\ run.web)
    /\ ~(run.titleChanged /\ run.bodyChanged)
    /\ ~run.tty

ReachesTerminalCheck(run) ==
    /\ ~run.authErr /\ ~run.baseRepoErr /\ run.parseErr = ""
    /\ run.repo = "enabled"

MustProvide == "must provide --title and --body when not attached to a terminal"

\* C23 (as claimed): without --web, without both flags and without a
\* terminal, issueCreate fails with the must-provide error and sends no
\* issue-creation request.
C23_MustProvideWhenNotOnTerminal ==
    (io.op = "issueCreate" /\ NonInteractiveIncomplete(io.run)) =>
        (io.ret.err = MustProvide /\ ~Requested(io.ret, "IssueCreate"))

\* C23 (amended): in that situation issueCreate fails and sends no
\* issue-creation request; the error is the must-provide error when the
\* steps before the terminal check succeed.
C23_MustProvideAfterEarlierSteps ==
    (io.op = "issueCreate" /\ NonInteractiveIncomplete(io.run)) =>
        /\ io.ret.err # "" /\ ~Requested(io.ret, "IssueCreate")
        /\ ReachesTerminalCheck(io.run) => io.ret.err = MustProvide

C23_Witness ==
    /\ io.op = "issueCreate" /\ NonInteractiveIncomplete(io.run)
    /\ ReachesTerminalCheck(io.run)
    /\ io.run.survey = "SubmitAction" /\ io.run.createErr = ""
    /\ io.ret.err = MustProvide /\ io.ret.requests = <<"GitHubRepo">>


(***************************************************************************)
(* Claims about the latch in a process that makes its calls one at a time. *)
(***************************************************************************)
\* C24: after a callback invocation of a CheckScopes decorator returns
\* without error the flag is true, and from then on no response that comes
\* back through that decorator invokes its callback, whatever scopes the
\* response advertises.
C24_SkipsAfterCallbackSuccess ==
    /\ [](hist.setBy # 0 => issuedScopesWarning)
    /\ [][hist'.ok > hist.ok => issuedScopesWarning']_vars
    /\ [][(hist.setBy # 0 /\ CallThrough(hist.setBy)) => hist'.fired = hist.fired]_vars

\* the decorator that set the flag sees a second qualifying response whose
\* scopes still miss the requirement, after a reauthentication
C24_Witness ==
    /\ issuedScopesWarning
    /\ hist.setBy = 1 /\ hist.reauthClient = 1
    /\ last.client = 1
    /\ hist.qual = 2 /\ ~hist.sat
    /\ hist.fired = 1

\* C27: the latch is shared by all CheckScopes decorators of the process:
\* once the decorator of one client has set the flag, no call through any
\* other client invokes a callback, whatever scope that client's decorator
\* wants.
C27_LatchSharedByDecorators ==
    [][\A c \in 1..Len(clients) :
          (issuedScopesWarning /\ c # hist.setBy /\ CallThrough(c))
              => hist'.fired = hist.fired]_vars

\* a client whose decorator wants another scope receives the second
\* qualifying response, which does not satisfy it, and stays silent
C27_Witness ==
    /\ issuedScopesWarning
    /\ hist.setBy # 0
    /\ last.client # 0 /\ last.client # hist.setBy
    /\ WantedOf(clients[last.client].opts) # WantedOf(clients[hist.setBy].opts)
    /\ hist.qual = 2 /\ ~hist.sat
    /\ hist.fired = 1


\* C25: when the wrapped sender returns a transport error or a response
\* with a status above 299, one CheckScopes decorator performs no check: the
\* callback is not invoked, the flag keeps its value, and the response and
\* the error of the wrapped sender are returned as they came.
C25_NoCheckOnFailure ==
    (io.op = "CheckScopes" /\ (io.st.err # "" \/ io.st.res.StatusCode > 299))
    => /\ io.ret.fired = 0
       /\ io.ret.flag = io.st.flag
       /\ io.ret.res = io.st.res
       /\ io.ret.err = io.st.err
       /\ io.ret.token = io.st.token /\ io.ret.cfg = io.st.cfg

\* a failure status that carries the application's header and misses the
\* wanted scope, with the flag still false
C25_Witness ==
    /\ io.op = "CheckScopes"
    /\ io.st.err = "" /\ io.st.res.StatusCode = 300
    /\ io.appID = oauthClientID
    /\ io.wantedScope = "read:org"
    /\ io.granted = <<"repo">>
    /\ ~io.st.flag
    /\ io.ret.fired = 0 /\ ~io.ret.flag /\ io.ret.res = io.st.res


(***************************************************************************)
(* One call of the client down to the sender.  http.Client.Do hands the    *)
(* request to the composed transport and, as the client is built with no   *)
(* CheckRedirect, follows a redirect response by handing a further request *)
(* to the same transport.  The sender answers the k-th request with the    *)
(* k-th answer; sends lists the requests that reached it.                  *)
(***************************************************************************)
MaxAnswers == 2

RedirectStatuses == {301, 302, 303, 307, 308}

Location == <<<<"Location", "https://api.github.com/user">>>>

Redirect(res) ==
    res.StatusCode \in RedirectStatuses /\ HeaderHas(res.Header, "Location")

SendOutcomes ==
    {TransportError}
        \cup {[res |-> [StatusCode |-> 200, Header |-> MkHeader(oauthClientID, g)],
               err |-> ""] : g \in {"repo", "gist, read:org"}}
        \cup {[res |-> [StatusCode |-> 302, Header |-> h], err |-> ""] :
                h \in {Location, <<>>}}
        \cup {[res |-> [StatusCode |-> 404, Header |-> <<>>], err |-> ""]}

\* the answers of the sender to the successive requests of one call
Answers ==
    {a \in SeqsUpTo(SendOutcomes, MaxAnswers) :
        /\ Len(a) > 0
        /\ a[Len(a)].err # "" \/ ~Redirect(a[Len(a)].res)}

Reached(client, sent) == [token |-> client.token, sender |-> sent.sender]

RECURSIVE ClientDoResends(_, _, _, _, _, _, _, _)
ClientDoResends(client, method, url, answers, k, flag, cfg, in) ==
    LET sent == Sent(client, method, url)
        st   == Do(client, sent.at, answers[k], flag, cfg, in)
    IN  IF /\ k < Len(answers)
           /\ st.err = ""
           /\ Redirect(st.res) \/ (st.fired > 0 /\ st.how = "reauth")
        THEN LET rest == ClientDoResends([client EXCEPT !.token = st.token], method,
                                         url, answers, k + 1, st.flag, st.cfg, in)
             IN  [st |-> rest.st, sends |-> <<Reached(client, sent)>> \o rest.sends]
        ELSE [st |-> st, sends |-> <<Reached(client, sent)>>]

\* c.http.Do(req) from the k-th request on
RECURSIVE ClientDo(_, _, _, _, _, _, _, _)
ClientDo(client, method, url, answers, k, flag, cfg, in) ==
    LET sent == Sent(client, method, url)
        st   == Do(client, sent.at, answers[k], flag, cfg, in)
    IN  IF k < Len(answers) /\ st.err = "" /\ Redirect(st.res)
        THEN LET rest == ClientDo([client EXCEPT !.token = st.token], method, url,
                                  answers, k + 1, st.flag, st.cfg, in)
             IN  [st |-> rest.st, sends |-> <<Reached(client, sent)>> \o rest.sends]
        ELSE [st |-> st, sends |-> <<Reached(client, sent)>>]

\* the call returns before c.http.Do: the request could not be built
NotBuilt(st) == [st |-> [st EXCEPT !.err = "request"], sends |-> <<>>]

SendInit(call, client, built, answers, flag, in) ==
    LET st == [res |-> NilResponse, err |-> "", flag |-> flag, token |-> client.token,
               cfg |-> client.token, qual |-> FALSE, sat |-> FALSE, fired |-> 0,
               cbErr |-> FALSE, how |-> ""]
    IN  [op |-> "input", call |-> call, client |-> client, built |-> built,
         answers |-> answers, flag |-> flag, in |-> in, ret |-> st, sends |-> <<>>]

InitSend ==
    /\ ProcessStart
    /\ \E call \in {"REST", "GraphQL", "HasScopes"}, client \in EndpointClients,
          answers \in Answers, flag \in BOOLEAN, in \in CallbackInputs :
          \E built \in (IF call = "HasScopes" THEN {TRUE} ELSE BOOLEAN) :
             io = SendInit(call, client, built, answers, flag, in)

Sending(call, method, url) ==
    /\ io.op = "input" /\ io.call = call
    /\ \E d \in {IF io.built
                  THEN ClientDo(io.client, method, url, io.answers, 1, io.flag,
                                io.client.token, io.in)
                  ELSE NotBuilt(io.ret)} :
          io' = [io EXCEPT !.op = call, !.ret = d.st, !.sends = d.sends]
    /\ UNCHANGED <<issuedScopesWarning, cfgToken, clients, hist, last, inflight>>

RESTSend == Sending("REST", "GET", RESTURL("", "user"))

GraphQLSend == Sending("GraphQL", "POST", GraphQLURL(""))

HasScopesSend == Sending("HasScopes", "GET", HasScopesURL)

NextSend == RESTSend \/ GraphQLSend \/ HasScopesSend

SpecSend == InitSend /\ [][NextSend]_vars

(***************************************************************************)
(* C26.  Nothing in the client retries.  As worded, every invocation of    *)
(* REST, GraphQL or HasScopes causes exactly one request to reach the base *)
(* sender in every outcome; that fails when the request cannot be built    *)
(* (none is sent) and when the sender answers with a redirect that         *)
(* http.Client follows (a further request is sent).  What holds: each      *)
(* invocation calls http.Client.Do at most once and never sends a request  *)
(* again after the scope callback ran: the requests that reach the sender  *)
(* are one for the call plus one for each redirect followed, all with the  *)
(* token the client had when the call began, and the caller receives the   *)
(* answer to the last of them, also after a successful reauthentication.   *)
(***************************************************************************)
Calls == {"REST", "GraphQL", "HasScopes"}

ReauthenticatedBy(st) == st.fired > 0 /\ ~st.cbErr /\ st.how = "reauth"

\* the redirects that are followed: the answers before the first that is
\* not a redirect
RECURSIVE Followed(_, _)
Followed(answers, k) ==
    IF k < Len(answers) /\ answers[k].err = "" /\ Redirect(answers[k].res)
    THEN 1 + Followed(answers, k + 1)
    ELSE 0

\* C26 (as claimed): every invocation causes exactly one request to reach
\* the sender, sent with the old token, and the caller receives its answer.
C26_ExactlyOneRequest ==
    io.op \in Calls =>
        /\ Len(io.sends) = 1
        /\ io.sends[1].token = io.client.token
        /\ io.ret.res = io.answers[1].res

\* C26 (amended): no request when the request cannot be built, otherwise
\* one request plus one for each redirect followed, all sent with the token
\* of the start of the call; the caller receives the answer to the last
\* one; a reauthentication by the callback causes no further request.
C26_OneRequestPerAnswer ==
    io.op \in Calls =>
        /\ Len(io.sends) = (IF io.built THEN 1 + Followed(io.answers, 1) ELSE 0)
        /\ \A i \in 1..Len(io.sends) : io.sends[i].token = io.client.token
        /\ io.built => io.ret.res = io.answers[Len(io.sends)].res
        /\ ReauthenticatedBy(io.ret) =>
              (Len(io.sends) = 1 + Followed(io.answers, 1) /\ io.ret.token # io.client.token)

\* the callback reauthenticates on the only answer, more answers being
\* available, and the request is not sent again
C26_Witness ==
    /\ io.op = "GraphQL" /\ io.built
    /\ Len(io.answers) = 2
    /\ ReauthenticatedBy(io.ret)
    /\ io.ret.token = "T2"
    /\ io.sends = <<[token |-> "T1", sender |-> "DefaultTransport"]>>
    /\ io.ret.res = io.answers[1].res

(***************************************************************************)
(* C28.  When a GraphQL response carries both data and a non-empty error   *)
(* list, GraphQL returns the GraphQLErrorResponse and the caller's output  *)
(* target has not been populated from the response's data: it is as it was *)
(* before the call.                                                        *)
(***************************************************************************)
C28_PartialDataDiscarded ==
    (io.op = "GraphQL" /\ io.ret.err.kind = "GraphQLErrorResponse")
        => io.ret.data = io.data


(***************************************************************************)
(* C29.  HasScopes sends its identity request to the default host whatever *)
(* the endpoint host override is, and it treats every status other than    *)
(* 200, other 2xx statuses included, as a failure: it returns false, an    *)
(* empty app identifier and an HTTPError with that status.                 *)
(***************************************************************************)
C29_DefaultHostAndOnly200 ==
    io.op = "HasScopes" =>
        /\ io.url = [host |-> defaultHost, path |-> "user"]
        /\ io.resp.StatusCode # 200 =>
              /\ ~io.ret.ok
              /\ io.ret.appID = ""
              /\ io.ret.err.kind = "HTTPError"
              /\ io.ret.err.StatusCode = io.resp.StatusCode

\* the override is set and REST would follow it; the response is a 204
\* whose header grants the wanted scope
C29_Witness ==
    /\ io.op = "HasScopes"
    /\ io.gheHostname = "agithub.com:8"
    /\ RESTURL(io.gheHostname, "user").host = "agithub.com:8"
    /\ io.url.host = "api.github.com"
    /\ io.resp.StatusCode = 204
    /\ io.wanted = <<"repo">> /\ io.granted = <<"repo">>
    /\ ~io.ret.ok /\ io.ret.err.kind = "HTTPError"


(***************************************************************************)
(* C30.  ensureScopes and the flag.  Every invocation that finds the       *)
(* scopes missing while GITHUB_TOKEN is set or the process is not on a     *)
(* terminal emits the warning and returns the original client with the     *)
(* error "Unable to reauthenticate", whatever the flag is.                 *)
(***************************************************************************)
ScopesMissing == io.has.err = NoError /\ ~io.has.ok

NonInteractive == Len(io.ein.githubToken) > 0 \/ ~io.ein.isTerminal

WarnsAgain ==
    (ScopesMissing /\ NonInteractive)
        => /\ io.ret.how = "warning"
           /\ io.ret.ret = 1
           /\ io.ret.err = "Unable to reauthenticate"

\* C30 (as claimed): ensureScopes neither reads nor writes the flag: the
\* flag is after the invocation what it was before, and the warning is
\* emitted again whatever the flag is.
C30_FlagUntouched ==
    io.op = "ensureScopes" => (io.after = io.flag /\ WarnsAgain)

\* C30 (amended): the statements of ensureScopes neither read nor write the
\* flag, so the warning is emitted again whatever the flag is; during the
\* invocation the flag changes only from false to true, and only when the
\* CheckScopes decorator of the client invoked its callback on the response
\* to the HasScopes request.
C30_FlagWrittenOnlyByDecorator ==
    io.op = "ensureScopes"
    => /\ WarnsAgain
       /\ io.after # io.flag => (~io.flag /\ io.after /\ io.fired > 0)
       /\ io.fired = 0 => io.after = io.flag

\* the flag is already set, by an earlier warning, and ensureScopes warns
C30_Witness ==
    /\ io.op = "ensureScopes"
    /\ io.flag /\ io.after
    /\ ScopesMissing
    /\ io.ein.githubToken # ""
    /\ io.has.appID = oauthClientID
    /\ io.ret.how = "warning" /\ io.ret.err = "Unable to reauthenticate"

=============================================================================
